---- MODULE Spec2Model ----
(***************************************************************************)
(* State-machine models of the canisters of this repository:              *)
(*   - the SNS Root canister (rs/sns/root/src/lib.rs)                      *)
(*   - the ckETH minter (rs/ethereum/cketh/minter/src/main.rs)             *)
(* Every canister method is cut at its await points: one action is one     *)
(* message execution (from a call or a response up to the next await,      *)
(* return or panic).  A panic rolls back what its own message execution    *)
(* changed and nothing else.                                               *)
(***************************************************************************)
EXTENDS Integers, Sequences, FiniteSets, TLC

(***************************************************************************)
(* Generic helpers                                                         *)
(***************************************************************************)
SeqToSet(s) == {s[i] : i \in DOMAIN s}

Contains(s, x) == \E i \in DOMAIN s : s[i] = x

MinOf(S) == CHOOSE m \in S : \A x \in S : m <= x

MinNat(a, b) == IF a <= b THEN a ELSE b

RECURSIVE SetToSortedSeq(_)
SetToSortedSeq(S) ==
    IF S = {} THEN <<>>
    ELSE LET m == MinOf(S) IN <<m>> \o SetToSortedSeq(S \ {m})

NoDuplicates(s) == \A i, j \in DOMAIN s : i # j => s[i] # s[j]

(***************************************************************************)
(* SNS Root canister: principals                                           *)
(***************************************************************************)
\* Bounds of the SNS Root model
NumDapps == 2
MaxRegisterCalls == 2
RootRegisterCalls == 1
MaxSetCalls == 1
MaxPolls == 1
MaxTicks == 1

\* Canister ids are ordered as PrincipalId is (the BTreeSet of a request is
\* walked in ascending order).  The canisters 1..NumDapps are canisters that
\* may be registered as dapps.
DappIds == 1..NumDapps
DappA == MinOf(DappIds)
DappB == NumDapps
GovernanceId == NumDapps + 1
LedgerId == NumDapps + 2
SwapId == NumDapps + 3
IndexId == NumDapps + 4
RootId == NumDapps + 5
ArchiveA == NumDapps + 6
\* A principal that is no SNS canister: another controller, another caller.
OtherPrincipal == NumDapps + 7

RegisterSlots == {1, 2}
PollSlots == {1, 2}

CanisterIds == 1..ArchiveA

\* Canisters the ledger may spawn as archives.  DappB stands for a canister
\* that root controls and that the ledger reports as an archive.
ArchiveCandidates == {DappB, ArchiveA}

ONE_DAY_SECONDS == 86400
\* The clock advances in steps of half a day.
TickSeconds == ONE_DAY_SECONDS \div 2

VARIABLES
    \* SnsRootCanister
    dapp_canister_ids,
    archive_canister_ids,
    latest_ledger_archive_poll_timestamp_seconds,
    testflight,
    \* in-flight calls of the SNS Root canister
    register_call,
    set_call,
    poll_call,
    summary_call,
    \* history: the latest run of run_periodic_tasks
    periodic_run,
    \* environment of the SNS Root canister
    ledger_archives,
    now_seconds,
    root_budget,
    \* history: two register_dapp_canisters calls have been in flight together
    register_overlap

rootVars == <<dapp_canister_ids, archive_canister_ids,
              latest_ledger_archive_poll_timestamp_seconds, testflight,
              register_call, set_call, poll_call, summary_call, periodic_run,
              ledger_archives,
              now_seconds, root_budget, register_overlap>>

VARIABLES
    \* State of the ckETH minter (ic_cketh_minter::state::State)
    ethereum_contract_address,
    last_scraped_block_number,
    last_observed_block_number,
    events_to_mint,
    minted_events,
    invalid_events,
    active_tasks,
    retrieve_eth_principals,
    withdrawal_requests,
    sent_tx,
    finalized_tx,
    \* the append-only event log in stable memory
    event_log,
    \* in-flight tasks and calls of the ckETH minter, pending one-shot timers
    scrap,
    mint,
    mint_timers,
    withdraw_call,
    finalize,
    events_query,
    \* environment and history of the ckETH minter
    ledger_mints,
    ledger_burns,
    scraped_upto,
    rescraped,
    \* the tasks whose timer has found the guard of the task held
    guard_refused,
    minter_budget

minterVars == <<ethereum_contract_address, last_scraped_block_number,
                last_observed_block_number, events_to_mint, minted_events,
                invalid_events, active_tasks, retrieve_eth_principals,
                withdrawal_requests, sent_tx, finalized_tx, event_log, scrap, mint,
                mint_timers, withdraw_call, finalize, events_query, ledger_mints,
                ledger_burns, scraped_upto, rescraped, guard_refused,
                minter_budget>>

VARIABLES
    \* The PocketIC server: the files in the temp dir, keyed by the pid argument
    port_file,
    ready_file,
    \* the server processes started with that pid
    server,
    \* AppState of the serving process
    blob_store,
    last_request,
    \* environment and history of the PocketIC server
    server_now,
    http_exchange,
    posts,
    server_budget

serverVars == <<port_file, ready_file, server, blob_store, last_request,
                server_now, http_exchange, posts, server_budget>>

VARIABLES
    \* The TLS verifier of the boundary node: TlsVerifier.rs, the published
    \* registry snapshot, and the last call of verify_server_cert
    registry_snapshot,
    tls_handshake

tlsVars == <<registry_snapshot, tls_handshake>>

VARIABLES
    \* The SNS swap (sale) canister driven by PaymentProtocolTestSetup: its
    \* ticket state, the last call made to it, and the history of its answers
    swap,
    swap_call,
    swap_history,
    swap_budget

swapVars == <<swap, swap_call, swap_history, swap_budget>>

\* The state of the components that stand apart from the two canisters and
\* the PocketIC server.
VARIABLES
    \* The ckBTC deployment of test_kyt: the bitcoin network, the minter, the
    \* KYT canister and the ledger, the last update_balance call and the
    \* history of the statuses reported
    bitcoin,
    ckbtc_minter,
    kyt,
    ckbtc_ledger,
    ckbtc_call,
    ckbtc_history

ckbtcVars == <<bitcoin, ckbtc_minter, kyt, ckbtc_ledger, ckbtc_call, ckbtc_history>>

VARIABLES
    \* The withdrawal pipeline of the ckETH minter (eth_transactions): the
    \* transactions created and signed, the next nonce, the running round of
    \* process_retrieve_eth_requests and the history of its rounds
    created_tx,
    signed_tx,
    next_transaction_nonce,
    retrieve,
    retrieve_round,
    retrieve_budget

retrieveVars == <<created_tx, signed_tx, next_transaction_nonce, retrieve,
                  retrieve_round, retrieve_budget>>

componentVars == <<tlsVars, swapVars, ckbtcVars, retrieveVars>>

vars == <<rootVars, minterVars, serverVars, componentVars>>

(***************************************************************************)
(* SNS Root canister: register_dapp_canisters                              *)
(***************************************************************************)
\* Option<u64> as a sequence of length 0 or 1.
None == <<>>
Some(x) == <<x>>

\* A request: its ids in any multiplicity; the order is irrelevant because the
\* code collects them into a BTreeSet.  Enumerated as the ascending list of
\* any set of dapp ids, alone or with one more canister id; a list of dapp
\* ids alone also with its first id repeated; and the empty list.
RegisterRequests ==
    LET dappSets == SUBSET DappIds
        sets == dappSets \cup
                {D \cup {x} : D \in dappSets, x \in CanisterIds \ DappIds}
    IN {SetToSortedSeq(S) : S \in sets} \cup
       {SetToSortedSeq(D) \o <<MinOf(D)>> : D \in dappSets \ {{}}}

\* The answers of the management canister to canister_status: an error, or
\* a status with this controller list.
ControllerLists == {<<RootId>>, <<RootId, OtherPrincipal>>, <<OtherPrincipal>>}
StatusResults == {[ok |-> FALSE, controllers |-> <<>>]} \cup
                 {[ok |-> TRUE, controllers |-> c] : c \in ControllerLists}

IdleRegisterCall ==
    [pc |-> "idle", request |-> <<>>, cur |-> 0, todo |-> <<>>, dapps |-> <<>>,
     sns |-> {}, outcome |-> "none", culprit |-> 0, pushed |-> {},
     called |-> {}]

\* list_sns_canisters and the forbidden list built from it (lines 525-548).
SnsCanisterIds(archives) ==
    {RootId, GovernanceId, LedgerId, IndexId, SwapId} \cup SeqToSet(archives)

\* The for loop of register_dapp_canisters from the head of `todo` up to its
\* first await (canister_status), its panic or its end.
RECURSIVE RegisterLoopNoSkip(_, _, _)
RegisterLoopNoSkip(todo, sns, dapps) ==
    IF todo = <<>> THEN [kind |-> "done", id |-> 0, rest |-> <<>>]
    ELSE LET q == Head(todo) IN
         IF q \in sns THEN [kind |-> "panic", id |-> q, rest |-> Tail(todo)]
         ELSE [kind |-> "await", id |-> q, rest |-> Tail(todo)]

RECURSIVE RegisterLoopNoForbidden(_, _, _)
RegisterLoopNoForbidden(todo, sns, dapps) ==
    IF todo = <<>> THEN [kind |-> "done", id |-> 0, rest |-> <<>>]
    ELSE LET q == Head(todo) IN
         IF Contains(dapps, q) THEN RegisterLoopNoForbidden(Tail(todo), sns, dapps)
         ELSE [kind |-> "await", id |-> q, rest |-> Tail(todo)]

RECURSIVE RegisterLoopRec(_, _, _)
RegisterLoopRec(todo, sns, dapps) ==
    IF todo = <<>> THEN [kind |-> "done", id |-> 0, rest |-> <<>>]
    ELSE LET q == Head(todo) IN
         IF q \in sns THEN [kind |-> "panic", id |-> q, rest |-> Tail(todo)]
         ELSE IF Contains(dapps, q) THEN RegisterLoopRec(Tail(todo), sns, dapps)
         ELSE [kind |-> "await", id |-> q, rest |-> Tail(todo)]

RegisterLoop(todo, sns, dapps) == RegisterLoopRec(todo, sns, dapps)

\* The end of a register_dapp_canisters call: the slot keeps what the call did.
RegisterEnd(c, outcome, culprit) ==
    [c EXCEPT !.pc = "idle", !.outcome = outcome, !.culprit = culprit,
              !.cur = 0, !.todo = <<>>]

\* Another register call is between its first and last message execution.
OtherRegisterInFlight(r) ==
    \E o \in RegisterSlots \ {r} : register_call[o].pc # "idle"

\* register_dapp_canisters, first message execution: lines 519-576.  A call
\* takes the first free call slot; the slots of the calls that have returned
\* are cleared.
RegisterStart(r, request) ==
    /\ register_call[r].pc = "idle"
    /\ \A o \in RegisterSlots : o < r => register_call[o].pc # "idle"
    /\ root_budget.register > 0
    /\ root_budget' = [root_budget EXCEPT !.register = @ - 1]
    /\ LET canisters_to_register == SetToSortedSeq(SeqToSet(request))
           sns == SnsCanisterIds(archive_canister_ids)
           dapps == dapp_canister_ids
           res == RegisterLoop(canisters_to_register, sns, dapps)
           c0 == [IdleRegisterCall EXCEPT !.request = request, !.dapps = dapps,
                                          !.sns = sns]
           c1 == IF request = <<>> THEN RegisterEnd(c0, "panic_empty", 0)
                 ELSE IF res.kind = "panic"
                      THEN RegisterEnd(c0, "panic_forbidden", res.id)
                 ELSE IF res.kind = "done" THEN RegisterEnd(c0, "ok", 0)
                 ELSE [c0 EXCEPT !.pc = "status", !.cur = res.id,
                                 !.todo = res.rest, !.called = {res.id}]
       IN register_call' =
            [o \in RegisterSlots |->
               IF o = r THEN c1
               ELSE IF register_call[o].pc = "idle" THEN IdleRegisterCall
               ELSE register_call[o]]
    /\ register_overlap' = (register_overlap \/ OtherRegisterInFlight(r))
    /\ UNCHANGED <<minterVars, serverVars, componentVars, summary_call, periodic_run, dapp_canister_ids, archive_canister_ids,
                   latest_ledger_archive_poll_timestamp_seconds, testflight,
                   set_call, poll_call, ledger_archives, now_seconds>>

\* Lines 618-623 with the ids of a request pushed together when its last id
\* has passed its checks.
RegisterPushAtEnd(r) ==
    LET c == register_call[r]
        res == RegisterLoop(c.todo, c.sns, c.dapps)
    IN IF res.kind = "panic"
       THEN /\ register_call' =
                 [register_call EXCEPT ![r] = RegisterEnd(c, "panic_forbidden", res.id)]
            /\ UNCHANGED dapp_canister_ids
       ELSE IF res.kind = "done"
       THEN /\ dapp_canister_ids' =
                 dapp_canister_ids \o SetToSortedSeq(c.pushed \cup {c.cur})
            /\ register_call' =
                 [register_call EXCEPT ![r] =
                    RegisterEnd([c EXCEPT !.pushed = @ \cup {c.cur}], "ok", 0)]
       ELSE /\ UNCHANGED dapp_canister_ids
            /\ register_call' =
                 [register_call EXCEPT ![r] =
                    [c EXCEPT !.pushed = @ \cup {c.cur}, !.pc = "status",
                              !.cur = res.id, !.todo = res.rest,
                              !.called = @ \cup {res.id}]]

\* Lines 618-623, then the loop again up to the next await, panic or return.
\* A panic in the same message execution rolls the push back.
RegisterPushAndContinue(r) ==
    LET c == register_call[r]
        res == RegisterLoop(c.todo, c.sns, c.dapps)
    IN IF res.kind = "panic"
       THEN /\ register_call' =
                 [register_call EXCEPT ![r] = RegisterEnd(c, "panic_forbidden", res.id)]
            /\ UNCHANGED dapp_canister_ids
       ELSE /\ dapp_canister_ids' = Append(dapp_canister_ids, c.cur)
            /\ register_call' =
                 [register_call EXCEPT ![r] =
                    IF res.kind = "done"
                    THEN RegisterEnd([c EXCEPT !.pushed = @ \cup {c.cur}], "ok", 0)
                    ELSE [c EXCEPT !.pushed = @ \cup {c.cur}, !.pc = "status",
                                   !.cur = res.id, !.todo = res.rest,
                                   !.called = @ \cup {res.id}]]

\* The response to the first canister_status call: lines 574-599.
RegisterStatusResponse(r, result) ==
    /\ register_call[r].pc = "status"
    /\ LET c == register_call[r] IN
         IF ~result.ok
         THEN /\ register_call' =
                   [register_call EXCEPT ![r] = RegisterEnd(c, "panic_status", c.cur)]
              /\ UNCHANGED dapp_canister_ids
         ELSE IF ~Contains(result.controllers, RootId)
         THEN /\ register_call' =
                   [register_call EXCEPT ![r] = RegisterEnd(c, "panic_not_controlled", c.cur)]
              /\ UNCHANGED dapp_canister_ids
         ELSE IF result.controllers # <<RootId>> /\ ~testflight
         THEN /\ register_call' = [register_call EXCEPT ![r].pc = "update"]
              /\ UNCHANGED dapp_canister_ids
         ELSE RegisterPushAndContinue(r)
    /\ UNCHANGED <<minterVars, serverVars, componentVars, summary_call, periodic_run, archive_canister_ids,
                   latest_ledger_archive_poll_timestamp_seconds, testflight,
                   set_call, poll_call, ledger_archives, now_seconds, root_budget, register_overlap>>

\* The response to update_settings: lines 593-610.
RegisterUpdateResponse(r, ok) ==
    /\ register_call[r].pc = "update"
    /\ register_call' =
         [register_call EXCEPT ![r] =
            IF ok THEN [@ EXCEPT !.pc = "status2"]
            ELSE RegisterEnd(@, "panic_update", @.cur)]
    /\ UNCHANGED <<minterVars, serverVars, componentVars, summary_call, periodic_run, dapp_canister_ids, archive_canister_ids,
                   latest_ledger_archive_poll_timestamp_seconds, testflight,
                   set_call, poll_call, ledger_archives, now_seconds, root_budget, register_overlap>>

\* The response to the second canister_status call: lines 603-623.
RegisterStatus2Response(r, result) ==
    /\ register_call[r].pc = "status2"
    /\ LET c == register_call[r] IN
         IF ~result.ok
         THEN /\ register_call' =
                   [register_call EXCEPT ![r] = RegisterEnd(c, "panic_status", c.cur)]
              /\ UNCHANGED dapp_canister_ids
         ELSE IF result.controllers # <<RootId>>
         THEN /\ register_call' =
                   [register_call EXCEPT ![r] = RegisterEnd(c, "panic_not_exclusive", c.cur)]
              /\ UNCHANGED dapp_canister_ids
         ELSE RegisterPushAndContinue(r)
    /\ UNCHANGED <<minterVars, serverVars, componentVars, summary_call, periodic_run, archive_canister_ids,
                   latest_ledger_archive_poll_timestamp_seconds, testflight,
                   set_call, poll_call, ledger_archives, now_seconds, root_budget, register_overlap>>

(***************************************************************************)
(* SNS Root canister: set_dapp_controllers                                 *)
(***************************************************************************)
IdleSetCall ==
    [pc |-> "idle", caller |-> 0, ids |-> <<>>, idx |-> 0,
     still_controlled |-> FALSE, failed_updates |-> <<>>, updated |-> <<>>,
     outcome |-> "none",
     \* history of the call: the tracked dapps when it started, the management
     \* canister calls it issued, what each pre-flight check found
     set_all |-> FALSE, dapps_at_start |-> <<>>, status_calls |-> <<>>,
     update_calls |-> <<>>, preflight |-> <<>>]

\* request.canister_ids: None, or Some(list); a list may name a canister twice.
SetRequestIds == {None} \cup {Some(<<>>)} \cup
                 {Some(<<a>>) : a \in {DappA, DappB}} \cup
                 {Some(<<DappA, DappB>>), Some(<<DappA, DappA>>)}

SetRequestControllers == {<<OtherPrincipal>>, <<RootId, OtherPrincipal>>}

SetCallers == {SwapId, GovernanceId, OtherPrincipal}

\* v.swap_remove(i): the last element takes the place of element i.
SwapRemove(v, i) ==
    [j \in 1..(Len(v) - 1) |-> IF j = i THEN v[Len(v)] ELSE v[j]]

\* swap_remove_if (lines 270-281) with the predicate `element == x`.
RECURSIVE SwapRemoveIfFrom(_, _, _)
SwapRemoveIfFrom(v, x, i) ==
    IF i > Len(v) THEN v
    ELSE IF v[i] = x THEN SwapRemoveIfFrom(SwapRemove(v, i), x, i)
    ELSE SwapRemoveIfFrom(v, x, i + 1)

swap_remove_if(v, x) == SwapRemoveIfFrom(v, x, 1)

SetEnd(c, outcome) == [c EXCEPT !.pc = "idle", !.outcome = outcome, !.idx = 0]

SetAuthorizationAnyCaller(caller, canister_ids) == "authorized"

\* The checks on the caller: lines 650-655 and 658-671.
SetAuthorization(caller, canister_ids) ==
    LET is_authorized == caller = SwapId \/ caller = GovernanceId
        is_authorized_to_set_all_controllers == caller = SwapId
    IN IF ~is_authorized THEN "panic_unauthorized"
       ELSE IF canister_ids = None /\ ~is_authorized_to_set_all_controllers
            THEN "panic_set_all"
       ELSE "authorized"

SetPreflightCheckStatusOnly(result) ==
    IF ~result.ok THEN "panic_status" ELSE "pass"

\* The pre-flight check of one canister: lines 684-709.
SetPreflightCheck(result) ==
    IF ~result.ok THEN "panic_status"
    ELSE LET is_controllee == Contains(result.controllers, RootId)
         IN IF ~is_controllee THEN "panic_not_controllee" ELSE "pass"

SetRemoveAfterUpdateAlways(dapps, id, ok, still_controlled) ==
    IF ok THEN swap_remove_if(dapps, id) ELSE dapps

\* What an update_settings result does to dapp_canister_ids: lines 736-759.
SetRemoveAfterUpdate(dapps, id, ok, still_controlled) ==
    IF ~ok THEN dapps
    ELSE IF ~still_controlled THEN swap_remove_if(dapps, id)
    ELSE dapps

\* set_dapp_controllers, first message execution: lines 650-686.
SetStart(caller, canister_ids, controller_principal_ids) ==
    /\ set_call.pc = "idle"
    /\ root_budget.set > 0
    /\ root_budget' = [root_budget EXCEPT !.set = @ - 1]
    /\ LET authorization == SetAuthorization(caller, canister_ids)
           c0 == [IdleSetCall EXCEPT !.caller = caller,
                    !.still_controlled = Contains(controller_principal_ids, RootId),
                    !.set_all = (canister_ids = None),
                    !.dapps_at_start = dapp_canister_ids]
       IN set_call' =
            IF authorization # "authorized" THEN SetEnd(c0, authorization)
            ELSE LET ids == IF canister_ids = None THEN dapp_canister_ids
                            ELSE canister_ids[1]
                 IN IF ids = <<>> THEN SetEnd(c0, "ok")
                    ELSE [c0 EXCEPT !.pc = "preflight", !.ids = ids, !.idx = 1,
                                    !.status_calls = <<ids[1]>>]
    /\ UNCHANGED <<minterVars, serverVars, componentVars, summary_call, periodic_run, dapp_canister_ids,
                   archive_canister_ids,
                   latest_ledger_archive_poll_timestamp_seconds, testflight,
                   register_call, poll_call, ledger_archives, now_seconds, register_overlap>>

\* The response to a pre-flight canister_status call: lines 684-733.
SetPreflightResponse(result) ==
    /\ set_call.pc = "preflight"
    /\ LET check == SetPreflightCheck(result)
           c1 == [set_call EXCEPT !.preflight =
                    Append(@, result.ok /\ Contains(result.controllers, RootId))]
       IN set_call' =
            IF check # "pass" THEN SetEnd(c1, check)
            ELSE IF set_call.idx < Len(set_call.ids)
                 THEN [c1 EXCEPT !.idx = @ + 1,
                                 !.status_calls = Append(@, set_call.ids[set_call.idx + 1])]
            ELSE [c1 EXCEPT !.pc = "update", !.idx = 1,
                            !.update_calls = <<set_call.ids[1]>>]
    /\ UNCHANGED <<minterVars, serverVars, componentVars, summary_call, periodic_run, dapp_canister_ids,
                   archive_canister_ids,
                   latest_ledger_archive_poll_timestamp_seconds, testflight,
                   register_call, poll_call, ledger_archives, now_seconds, root_budget, register_overlap>>

\* The response to an update_settings call: lines 732-763.
SetUpdateResponse(ok) ==
    /\ set_call.pc = "update"
    /\ LET id == set_call.ids[set_call.idx]
           c1 == IF ok THEN [set_call EXCEPT !.updated = Append(@, id)]
                 ELSE [set_call EXCEPT !.failed_updates = Append(@, id)]
       IN /\ dapp_canister_ids' =
               SetRemoveAfterUpdate(dapp_canister_ids, id, ok, set_call.still_controlled)
          /\ set_call' =
               IF set_call.idx < Len(set_call.ids)
               THEN [c1 EXCEPT !.idx = @ + 1,
                               !.update_calls = Append(@, set_call.ids[set_call.idx + 1])]
               ELSE SetEnd(c1, "ok")
    /\ UNCHANGED <<minterVars, serverVars, componentVars, summary_call, periodic_run, archive_canister_ids,
                   latest_ledger_archive_poll_timestamp_seconds, testflight,
                   register_call, poll_call, ledger_archives, now_seconds, root_budget, register_overlap>>

(***************************************************************************)
(* SNS Root canister: archive polls                                        *)
(***************************************************************************)
IdlePollCall ==
    [pc |-> "idle", ok |-> FALSE, archives |-> <<>>, ts |-> 0, origin |-> "none",
     \* history: how the latest poll of the slot ended
     outcome |-> "none"]

\* a - b on u64 for a, b below 2^31: the difference, or on underflow a panic
\* (a build with overflow checks) or 2^64 - (b - a) (a build without them).
U64Sub(a, b, overflow_checks) ==
    IF a >= b THEN [kind |-> "value", wrapped |-> FALSE, value |-> a - b]
    ELSE IF overflow_checks THEN [kind |-> "panic", wrapped |-> FALSE, value |-> 0]
    ELSE [kind |-> "value", wrapped |-> TRUE, value |-> b - a]

\* d < bound for a result d of U64Sub and a bound below 2^31: a wrapped
\* difference is at least 2^64 - 2^31.
U64Less(d, bound) == IF d.wrapped THEN FALSE ELSE d.value < bound

\* should_poll_for_new_archive_canisters (lines 853-866): "true", "false",
\* or "panic" when the subtraction of line 860 underflows in a build with
\* overflow checks.
should_poll_for_new_archive_canisters(latest, current_timestamp_seconds, overflow_checks) ==
    IF latest = None THEN "true"
    ELSE LET d == U64Sub(current_timestamp_seconds, latest[1], overflow_checks)
         IN IF d.kind = "panic" THEN "panic"
            ELSE IF U64Less(d, ONE_DAY_SECONDS) THEN "false"
            ELSE "true"

\* compare_archives_responses that reports no defect.
CompareArchivesResponsesNoDefect(old_archive_canisters, new_archive_canisters) == {}

\* compare_archives_responses (lines 870-885): the previously tracked ids
\* that the new response misses.
compare_archives_responses(old_archive_canisters, new_archive_canisters) ==
    {old_archive_canisters[i] : i \in DOMAIN old_archive_canisters}
        \ SeqToSet(new_archive_canisters)

IdlePeriodicRun ==
    [called |-> FALSE, latest |-> None, current |-> 0, overflow_checks |-> FALSE,
     should_poll |-> "none", polled |-> FALSE]

\* run_periodic_tasks (lines 767-788) and, when it polls, the first message
\* execution of poll_for_new_archive_canisters (lines 796-806).  A panic
\* leaves the state of the canister as it was.
RunPeriodicTasks(p, overflow_checks) ==
    /\ poll_call[p].pc = "idle"
    /\ root_budget.poll > 0
    /\ root_budget' = [root_budget EXCEPT !.poll = @ - 1]
    /\ LET should_poll_archives ==
               should_poll_for_new_archive_canisters(
                   latest_ledger_archive_poll_timestamp_seconds, now_seconds,
                   overflow_checks)
       IN /\ periodic_run' =
               [called |-> TRUE,
                latest |-> latest_ledger_archive_poll_timestamp_seconds,
                current |-> now_seconds, overflow_checks |-> overflow_checks,
                should_poll |-> should_poll_archives,
                polled |-> should_poll_archives = "true"]
          /\ IF should_poll_archives = "true"
             THEN /\ latest_ledger_archive_poll_timestamp_seconds' = Some(now_seconds)
                  /\ poll_call' = [poll_call EXCEPT ![p] =
                                     [IdlePollCall EXCEPT !.pc = "calling",
                                                          !.ts = now_seconds,
                                                          !.origin = "periodic"]]
             ELSE UNCHANGED <<latest_ledger_archive_poll_timestamp_seconds, poll_call>>
    /\ UNCHANGED <<minterVars, serverVars, componentVars, summary_call, dapp_canister_ids,
                   archive_canister_ids, testflight,
                   register_call, set_call, ledger_archives, now_seconds, register_overlap>>

\* The ledger answers archives(): its current archive list, or the call fails.
LedgerArchivesReply(p, ok) ==
    /\ poll_call[p].pc = "calling"
    /\ poll_call' = [poll_call EXCEPT ![p] =
                       [@ EXCEPT !.pc = "replied", !.ok = ok,
                                 !.archives = IF ok THEN ledger_archives ELSE <<>>]]
    /\ UNCHANGED <<minterVars, serverVars, componentVars, summary_call, periodic_run,
                   dapp_canister_ids, archive_canister_ids,
                   latest_ledger_archive_poll_timestamp_seconds, testflight,
                   register_call, set_call, ledger_archives, now_seconds, root_budget, register_overlap>>

\* How poll_for_new_archive_canisters ends: lines 808-845.
PollOutcome(tracked, ok, archives) ==
    IF ~ok THEN "call_failed"
    ELSE IF compare_archives_responses(tracked, archives) # {} THEN "defects"
    ELSE "updated"

PollResultReplace(tracked, ok, archives) == IF ok THEN archives ELSE tracked

\* What the response to archives() does to archive_canister_ids: lines 808-845.
PollResult(tracked, ok, archives) ==
    IF ~ok THEN tracked
    ELSE IF compare_archives_responses(tracked, archives) # {} THEN tracked
    ELSE archives

(***************************************************************************)
(* SNS Root canister: get_sns_canisters_summary                            *)
(***************************************************************************)
\* The canisters whose status is fetched before the dapps, in call order:
\* root (through governance), governance, ledger, index, swap (lines 424-455).
SummarySystemCanisters == <<RootId, GovernanceId, LedgerId, IndexId, SwapId>>

IdleSummaryCall ==
    [pc |-> "idle", update |-> FALSE, slot |-> 0, idx |-> 0, outcome |-> "none",
     \* the lists read at lines 404-421
     dapps |-> <<>>, archives |-> <<>>,
     \* the response under construction
     system |-> <<>>, dapp_summaries |-> <<>>, archive_summaries |-> <<>>,
     \* history of the call
     ledger_calls |-> 0, status_results |-> <<>>,
     archives_at_start |-> <<>>, latest_at_start |-> None, started_at |-> 0]

CanisterSummaryAlwaysStatus(canister_id, result) ==
    [canister_id |-> Some(canister_id), status |-> Some(result.controllers)]

\* get_owned_canister_summary (lines 944-983) for an id that converts into a
\* CanisterIdRecord: the status is that of the reply, or absent.
get_owned_canister_summary(canister_id, result) ==
    IF ~result.ok
    THEN [canister_id |-> Some(canister_id), status |-> None]
    ELSE [canister_id |-> Some(canister_id), status |-> Some(result.controllers)]

SummaryArchivesAtStart(at_start, tracked) == at_start

\* The archive list that is summarised is read after the poll: lines 394-421.
SummaryArchives(at_start, tracked) == tracked

\* End of the call: the response of lines 473-481 is returned.
SummaryEnd(c) == [c EXCEPT !.pc = "idle", !.idx = 0, !.outcome = "ok"]

\* The loop over the archive canisters: lines 466-471.
SummaryToArchives(c) ==
    IF c.archives = <<>> THEN SummaryEnd(c)
    ELSE [c EXCEPT !.pc = "archives", !.idx = 1]

\* The loop over the dapp canisters: lines 458-463.
SummaryToDapps(c) ==
    IF c.dapps = <<>> THEN SummaryToArchives(c)
    ELSE [c EXCEPT !.pc = "dapps", !.idx = 1]

\* Lines 404-424: the tracked lists are read and the root status is requested.
SummaryReadLists(c, dapps, tracked_archives) ==
    [c EXCEPT !.pc = "system", !.idx = 1, !.dapps = dapps,
              !.archives = SummaryArchives(c.archives_at_start, tracked_archives)]

\* get_sns_canisters_summary, first message execution (lines 390-424); with
\* update_canister_list it runs poll_for_new_archive_canisters up to its
\* archives() call (lines 796-806) in poll slot p.
SummaryStart(p, update_canister_list) ==
    /\ summary_call.pc = "idle"
    /\ root_budget.summary > 0
    /\ root_budget' = [root_budget EXCEPT !.summary = @ - 1]
    /\ update_canister_list => poll_call[p].pc = "idle"
    /\ LET c0 == [IdleSummaryCall EXCEPT
                    !.update = update_canister_list,
                    !.archives_at_start = archive_canister_ids,
                    !.latest_at_start = latest_ledger_archive_poll_timestamp_seconds,
                    !.started_at = now_seconds]
       IN IF update_canister_list
          THEN /\ latest_ledger_archive_poll_timestamp_seconds' = Some(now_seconds)
               /\ poll_call' = [poll_call EXCEPT ![p] =
                                  [IdlePollCall EXCEPT !.pc = "calling",
                                                       !.ts = now_seconds,
                                                       !.origin = "summary"]]
               /\ summary_call' = [c0 EXCEPT !.pc = "polling", !.slot = p,
                                             !.ledger_calls = 1]
          ELSE /\ summary_call' =
                    SummaryReadLists(c0, dapp_canister_ids, archive_canister_ids)
               /\ UNCHANGED <<latest_ledger_archive_poll_timestamp_seconds, poll_call>>
    /\ UNCHANGED <<minterVars, serverVars, componentVars, periodic_run, dapp_canister_ids,
                   archive_canister_ids, testflight, register_call, set_call,
                   ledger_archives, now_seconds, register_overlap>>

\* The response to archives(): lines 808-845; when the poll was made by
\* get_sns_canisters_summary, that call goes on with lines 404-424.
PollResponse(p) ==
    /\ poll_call[p].pc = "replied"
    /\ archive_canister_ids' =
         PollResult(archive_canister_ids, poll_call[p].ok, poll_call[p].archives)
    /\ poll_call' = [poll_call EXCEPT ![p] =
         [IdlePollCall EXCEPT !.outcome =
            PollOutcome(archive_canister_ids, poll_call[p].ok, poll_call[p].archives)]]
    /\ summary_call' =
         IF poll_call[p].origin = "summary"
         THEN SummaryReadLists(summary_call, dapp_canister_ids, archive_canister_ids')
         ELSE summary_call
    /\ UNCHANGED <<minterVars, serverVars, componentVars, periodic_run, dapp_canister_ids,
                   latest_ledger_archive_poll_timestamp_seconds, testflight,
                   register_call, set_call, ledger_archives, now_seconds, root_budget, register_overlap>>

\* The response to the status call of a canister of SummarySystemCanisters:
\* a failed call leaves the status of that summary absent (lines 424-455).
SummarySystemStatusResponse(ok) ==
    /\ summary_call.pc = "system"
    /\ LET c1 == [summary_call EXCEPT !.system = Append(@, ok)]
       IN summary_call' =
            IF summary_call.idx < Len(SummarySystemCanisters)
            THEN [c1 EXCEPT !.idx = @ + 1]
            ELSE SummaryToDapps(c1)
    /\ UNCHANGED <<minterVars, serverVars, componentVars, periodic_run, dapp_canister_ids,
                   archive_canister_ids,
                   latest_ledger_archive_poll_timestamp_seconds, testflight,
                   register_call, set_call, poll_call, ledger_archives, now_seconds,
                   root_budget, register_overlap>>

\* The response to the canister_status call for a dapp or an archive
\* canister: lines 458-471.
SummaryCanisterStatusResponse(result) ==
    /\ summary_call.pc \in {"dapps", "archives"}
    /\ LET in_dapps == summary_call.pc = "dapps"
           list == IF in_dapps THEN summary_call.dapps ELSE summary_call.archives
           id == list[summary_call.idx]
           summary == get_owned_canister_summary(id, result)
           c1 == [summary_call EXCEPT
                    !.dapp_summaries = IF in_dapps THEN Append(@, summary) ELSE @,
                    !.archive_summaries = IF in_dapps THEN @ ELSE Append(@, summary),
                    !.status_results = Append(@, [canister_id |-> id, ok |-> result.ok])]
       IN summary_call' =
            IF summary_call.idx < Len(list) THEN [c1 EXCEPT !.idx = @ + 1]
            ELSE IF in_dapps THEN SummaryToArchives(c1)
            ELSE SummaryEnd(c1)
    /\ UNCHANGED <<minterVars, serverVars, componentVars, periodic_run, dapp_canister_ids,
                   archive_canister_ids,
                   latest_ledger_archive_poll_timestamp_seconds, testflight,
                   register_call, set_call, poll_call, ledger_archives, now_seconds,
                   root_budget, register_overlap>>

\* The ledger spawns a new archive canister (its list only grows).
LedgerSpawnArchive(a) ==
    /\ ~Contains(ledger_archives, a)
    /\ ledger_archives' = Append(ledger_archives, a)
    /\ UNCHANGED <<minterVars, serverVars, componentVars, summary_call, periodic_run, dapp_canister_ids, archive_canister_ids,
                   latest_ledger_archive_poll_timestamp_seconds, testflight,
                   register_call, set_call, poll_call, now_seconds, root_budget, register_overlap>>

\* Time passes.
RootTick ==
    /\ root_budget.tick > 0
    /\ now_seconds' = now_seconds + TickSeconds
    /\ root_budget' = [root_budget EXCEPT !.tick = @ - 1]
    /\ UNCHANGED <<minterVars, serverVars, componentVars, summary_call, periodic_run, dapp_canister_ids, archive_canister_ids,
                   latest_ledger_archive_poll_timestamp_seconds, testflight,
                   register_call, set_call, poll_call, ledger_archives, register_overlap>>

(***************************************************************************)
(* ckETH minter: deposits (scrap_eth_logs, mint_cketh, upgrades)           *)
(***************************************************************************)
\* Bounds of the deposit model
MaxScrapRuns == 2
MaxMintFailures == 2
MaxUpgrades == 1

MAX_BLOCK_SPREAD == 1024

\* last_scraped_block_number of the InitArg of the modelled minter.
InitialBlock == 0

\* The block numbers that the finalized-block query may answer.
Heights == {1000, 1024, 1025, 5000}

\* The deposit logs of the helper contract.  A log is identified by its event
\* source (transaction_hash, log_index), here a number ascending with the
\* block.  kind: "deposit" is a well-formed ReceivedEthEvent, "bad_source" a
\* ReceivedEthEventError::InvalidEventSource, "bad_log" any other error.
ChainLogs ==
    {[source |-> 1, block_number |-> 1000, from_address |-> "alice", kind |-> "deposit"],
     [source |-> 2, block_number |-> 1024, from_address |-> "mallory", kind |-> "deposit"],
     [source |-> 3, block_number |-> 1025, from_address |-> "alice", kind |-> "deposit"],
     [source |-> 4, block_number |-> 2048, from_address |-> "alice", kind |-> "bad_source"],
     [source |-> 5, block_number |-> 2048, from_address |-> "alice", kind |-> "bad_log"]}

EventSources == {l.source : l \in ChainLogs}

LogOf(source) == CHOOSE l \in ChainLogs : l.source = source

\* ic_cketh_minter::blocklist: a static list of addresses.
Blocklist == {"mallory"}

is_blocked(address) == address \in Blocklist

\* eth_logs::last_received_eth_events(contract, from, to): the logs of the
\* blocks after `from` up to and including `to`, in chain order, split into
\* events and errors.
LogsBetween(from, to, kinds) ==
    SetToSortedSeq({l.source : l \in {x \in ChainLogs :
        x.block_number > from /\ x.block_number <= to /\ x.kind \in kinds}})

last_received_eth_events(from, to) ==
    [transaction_events |-> LogsBetween(from, to, {"deposit"}),
     errors |-> LogsBetween(from, to, {"bad_source", "bad_log"})]

\* Events of the audit log.
InitEvent(block) == [type |-> "Init", source |-> 0, block_number |-> block, reason |-> <<>>]
AcceptedDeposit(source) ==
    [type |-> "AcceptedDeposit", source |-> source, block_number |-> 0, reason |-> <<>>]
InvalidDeposit(source, reason) ==
    [type |-> "InvalidDeposit", source |-> source, block_number |-> 0, reason |-> reason]
MintedCkEth(source) ==
    [type |-> "MintedCkEth", source |-> source, block_number |-> 0, reason |-> <<>>]
SyncedToBlock(block) ==
    [type |-> "SyncedToBlock", source |-> 0, block_number |-> block, reason |-> <<>>]

\* The part of the minter state that process_event changes.
MinterState ==
    [events_to_mint |-> events_to_mint, minted_events |-> minted_events,
     invalid_events |-> invalid_events, event_log |-> event_log,
     last_scraped_block_number |-> last_scraped_block_number]

\* state::audit::process_event: apply the event to the state and append it to
\* the event log.
apply_state_transition(s, event) ==
    CASE event.type = "AcceptedDeposit" ->
            [s EXCEPT !.events_to_mint = @ \cup {event.source}]
      [] event.type = "InvalidDeposit" ->
            [s EXCEPT !.invalid_events = @ \cup {event.source}]
      [] event.type = "MintedCkEth" ->
            [s EXCEPT !.events_to_mint = @ \ {event.source},
                      !.minted_events = @ \cup {event.source}]
      [] event.type = "SyncedToBlock" ->
            [s EXCEPT !.last_scraped_block_number = event.block_number]
      [] event.type = "Init" ->
            [s EXCEPT !.events_to_mint = {}, !.minted_events = {}, !.invalid_events = {},
                      !.last_scraped_block_number = event.block_number]
      [] OTHER -> s

process_event(s, event) ==
    [apply_state_transition(s, event) EXCEPT !.event_log = Append(@, event)]

\* Lines 149-170 with every deposit accepted, whatever its sender.
ClassifyDepositAcceptAll(source) == AcceptedDeposit(source)

\* Lines 149-170: the audit event recorded for a received deposit event.
ClassifyDeposit(source) ==
    IF is_blocked(LogOf(source).from_address)
    THEN InvalidDeposit(source, <<"blocked address ", LogOf(source).from_address>>)
    ELSE AcceptedDeposit(source)

\* Lines 142-171: the for loop over the received events.
RECURSIVE ProcessTransactionEvents(_, _)
ProcessTransactionEvents(s, events) ==
    IF events = <<>> THEN s
    ELSE ProcessTransactionEvents(process_event(s, ClassifyDeposit(Head(events))),
                                  Tail(events))

\* Lines 175-188: the for loop over the errors.
RECURSIVE ProcessErrors(_, _)
ProcessErrors(s, errors) ==
    IF errors = <<>> THEN s
    ELSE ProcessErrors(
            IF LogOf(Head(errors)).kind = "bad_source"
            THEN process_event(s, InvalidDeposit(Head(errors), <<"invalid event source">>))
            ELSE s,
            Tail(errors))

\* Lines 124-127 without the cap of MAX_BLOCK_SPREAD.
ScrapSpanEndUncapped(from, to) == to

\* Lines 124-127: min(from + MAX_BLOCK_SPREAD, to).  BlockNumber::MAX is far
\* above every block number of the model, so checked_add always succeeds.
ScrapSpanEnd(from, to) == MinNat(from + MAX_BLOCK_SPREAD, to)

IdleScrap ==
    [pc |-> "idle", outcome |-> "none", start |-> 0, from |-> 0, prev |-> 0,
     span_to |-> 0, target |-> 0, calls |-> 0]

IdleMint == [pc |-> "idle", todo |-> <<>>, error_count |-> 0]

\* A TimerGuard::new(task) that never fails.
TimerGuardAlwaysFree(task) == TRUE

\* TimerGuard::new(task) and its Drop (ic_cketh_minter::guard).
TimerGuardFree(task) == task \notin active_tasks

depositStateVars == <<events_to_mint, minted_events, invalid_events, event_log>>

withdrawVars == <<retrieve_eth_principals, withdrawal_requests, withdraw_call, ledger_burns>>

finalizeVars == <<sent_tx, finalized_tx, finalize>>

\* The while loop of scrap_eth_logs (lines 103-110) from block `current` up
\* to the next await (inside scrap_eth_logs_between, lines 122-140) or the end.
ScrapLoop(sc, current, last_queried_block_number) ==
    IF current < last_queried_block_number
    THEN [sc EXCEPT !.pc = "logs", !.from = current,
                    !.span_to = ScrapSpanEnd(current, last_queried_block_number),
                    !.target = last_queried_block_number]
    ELSE [sc EXCEPT !.pc = "idle", !.outcome = "done",
                    !.target = last_queried_block_number]

\* What a step of scrap_eth_logs leaves behind: the guard is dropped when the
\* task ends, and the history of the blocks asked from the providers.
ScrapStepEnd(next) ==
    /\ scrap' = next
    /\ active_tasks' = IF next.pc = "idle" THEN active_tasks \ {"ScrapEthLogs"}
                       ELSE active_tasks
    /\ IF next.pc = "logs"
       THEN /\ rescraped' = (rescraped \/ next.from < scraped_upto)
            /\ scraped_upto' = IF next.span_to > scraped_upto THEN next.span_to
                               ELSE scraped_upto
       ELSE UNCHANGED <<rescraped, scraped_upto>>

\* The timer of scrap_eth_logs fires: lines 86-102.
ScrapStart ==
    /\ minter_budget.scrap > 0
    /\ minter_budget' = [minter_budget EXCEPT !.scrap = @ - 1]
    /\ guard_refused' = IF TimerGuardFree("ScrapEthLogs") THEN guard_refused
                         ELSE guard_refused \cup {"ScrapEthLogs"}
    /\ IF ~TimerGuardFree("ScrapEthLogs") \/ ethereum_contract_address = None
       THEN UNCHANGED <<active_tasks, scrap>>
       ELSE /\ active_tasks' = active_tasks \cup {"ScrapEthLogs"}
            /\ scrap' = [IdleScrap EXCEPT !.pc = "block_query",
                                          !.start = last_scraped_block_number,
                                          !.from = last_scraped_block_number,
                                          !.prev = last_scraped_block_number]
    /\ UNCHANGED <<rootVars, serverVars, componentVars, depositStateVars, withdrawVars, finalizeVars,
                   ethereum_contract_address, last_scraped_block_number,
                   last_observed_block_number, mint, mint_timers, events_query,
                   ledger_mints, scraped_upto, rescraped>>

\* The response to eth_get_block_by_number: lines 102-110 and 208-218.  A
\* failed call panics ("HTTP call failed"); the guard is then dropped or not,
\* depending on whether the cleanup of the call drops the future.
ScrapBlockResponse(result, cleanup) ==
    /\ scrap.pc = "block_query"
    /\ IF result = None
       THEN /\ scrap' = [scrap EXCEPT !.pc = "idle", !.outcome = "panic"]
            /\ active_tasks' = IF cleanup THEN active_tasks \ {"ScrapEthLogs"}
                               ELSE active_tasks
            /\ UNCHANGED <<last_observed_block_number, rescraped, scraped_upto>>
       ELSE /\ last_observed_block_number' = result
            /\ ScrapStepEnd(ScrapLoop(scrap, scrap.from, result[1]))
    /\ UNCHANGED <<rootVars, serverVars, componentVars, guard_refused, depositStateVars, withdrawVars, finalizeVars,
                   ethereum_contract_address, last_scraped_block_number, mint,
                   mint_timers, events_query, ledger_mints, minter_budget>>

\* Line 141 where only the events of senders that are not blocked count.
HasAcceptedEvents(transaction_events) ==
    \E i \in DOMAIN transaction_events :
        ~is_blocked(LogOf(transaction_events[i]).from_address)

\* Line 141: let has_new_events = !transaction_events.is_empty().
has_new_events(transaction_events) == transaction_events # <<>>

\* The response to last_received_eth_events: lines 135-191, then the loop
\* of scrap_eth_logs again.
ScrapLogsResponse ==
    /\ scrap.pc = "logs"
    /\ LET r == last_received_eth_events(scrap.from, scrap.span_to)
           s1 == ProcessTransactionEvents(MinterState, r.transaction_events)
           s2 == ProcessErrors(s1, r.errors)
           sc == [scrap EXCEPT !.calls = @ + 1, !.prev = scrap.from]
       IN /\ events_to_mint' = s2.events_to_mint
          /\ minted_events' = s2.minted_events
          /\ invalid_events' = s2.invalid_events
          /\ event_log' = s2.event_log
          /\ mint_timers' = IF has_new_events(r.transaction_events) THEN mint_timers + 1
                            ELSE mint_timers
          /\ last_scraped_block_number' = scrap.span_to
          /\ ScrapStepEnd(ScrapLoop(sc, scrap.span_to, scrap.target))
    /\ UNCHANGED <<rootVars, serverVars, componentVars, guard_refused, withdrawVars, finalizeVars, ethereum_contract_address,
                   last_observed_block_number, mint, events_query, ledger_mints,
                   minter_budget>>

\* Line 228 reading every event ever accepted.
MintSnapshotWithMinted == events_to_mint \cup minted_events

\* Line 228: s.events_to_mint.clone().
MintSnapshot == events_to_mint

\* A one-shot timer of mint_cketh fires: lines 220-246.
MintStart ==
    /\ mint_timers > 0
    /\ mint_timers' = mint_timers - 1
    /\ guard_refused' = IF TimerGuardFree("MintCkEth") THEN guard_refused
                         ELSE guard_refused \cup {"MintCkEth"}
    /\ IF ~TimerGuardFree("MintCkEth") \/ MintSnapshot = {}
       THEN UNCHANGED <<active_tasks, mint>>
       ELSE /\ active_tasks' = active_tasks \cup {"MintCkEth"}
            /\ mint' = [pc |-> "transfer", todo |-> SetToSortedSeq(MintSnapshot),
                        error_count |-> 0]
    /\ UNCHANGED <<rootVars, serverVars, componentVars, depositStateVars, withdrawVars, finalizeVars,
                   ethereum_contract_address, last_scraped_block_number,
                   last_observed_block_number, scrap, events_query, ledger_mints,
                   scraped_upto, rescraped, minter_budget>>

\* The response to a ledger transfer: lines 237-287.  result is "ok" (the
\* ledger made the transfer), "ledger_error" or "call_error".
MintTransferResponse(result) ==
    /\ mint.pc = "transfer"
    /\ result # "ok" => minter_budget.mint_fail > 0
    /\ minter_budget' = IF result = "ok" THEN minter_budget
                        ELSE [minter_budget EXCEPT !.mint_fail = @ - 1]
    /\ LET event_source == Head(mint.todo)
           s1 == IF result = "ok"
                 THEN process_event(MinterState, MintedCkEth(event_source))
                 ELSE MinterState
           error_count == IF result = "ok" THEN mint.error_count
                          ELSE mint.error_count + 1
       IN /\ ledger_mints' = IF result = "ok"
                             THEN [ledger_mints EXCEPT ![event_source] = @ + 1]
                             ELSE ledger_mints
          /\ events_to_mint' = s1.events_to_mint
          /\ minted_events' = s1.minted_events
          /\ invalid_events' = s1.invalid_events
          /\ event_log' = s1.event_log
          /\ IF Tail(mint.todo) = <<>>
             THEN /\ mint' = IdleMint
                  /\ active_tasks' = active_tasks \ {"MintCkEth"}
                  /\ mint_timers' = IF error_count > 0 THEN mint_timers + 1
                                    ELSE mint_timers
             ELSE /\ mint' = [mint EXCEPT !.todo = Tail(@), !.error_count = error_count]
                  /\ UNCHANGED <<active_tasks, mint_timers>>
    /\ UNCHANGED <<rootVars, serverVars, componentVars, guard_refused, withdrawVars, finalizeVars, ethereum_contract_address,
                   last_scraped_block_number, last_observed_block_number, scrap,
                   events_query, scraped_upto, rescraped>>

\* Lines 528-536 without the SyncedToBlock event.
PreUpgradeLogNoSync == event_log

\* pre_upgrade (lines 528-536): the event log that the new version finds.
PreUpgradeLog == Append(event_log, SyncedToBlock(last_scraped_block_number))

\* lifecycle::post_upgrade: the state is rebuilt from the event log.
RECURSIVE ReplayEvents(_, _)
ReplayEvents(s, events) ==
    IF events = <<>> THEN s
    ELSE ReplayEvents(apply_state_transition(s, Head(events)), Tail(events))

\* An upgrade of the stopped minter: pre_upgrade (lines 528-536), then
\* post_upgrade (lines 725-736).  Timers and guards do not survive it.
Upgrade ==
    /\ minter_budget.upgrade > 0
    /\ minter_budget' = [minter_budget EXCEPT !.upgrade = @ - 1]
    /\ scrap.pc = "idle" /\ mint.pc = "idle"
    /\ LET s == ReplayEvents(MinterState, PreUpgradeLog)
       IN /\ event_log' = PreUpgradeLog
          /\ events_to_mint' = s.events_to_mint
          /\ minted_events' = s.minted_events
          /\ invalid_events' = s.invalid_events
          /\ last_scraped_block_number' = s.last_scraped_block_number
    /\ active_tasks' = {}
    /\ mint_timers' = 0
    /\ last_observed_block_number' = None
    /\ UNCHANGED <<rootVars, serverVars, componentVars, guard_refused, withdrawVars, finalizeVars, ethereum_contract_address,
                   scrap, mint, events_query, ledger_mints, scraped_upto, rescraped>>

(***************************************************************************)
(* ckETH minter: withdraw_eth                                              *)
(***************************************************************************)
\* Bounds of the withdrawal model
NumWithdrawSlots == 2
MaxWithdrawCalls == 3

WithdrawSlots == 1..NumWithdrawSlots

Callers == {"anonymous", "p1", "p2"}

\* Recipients: a valid destination, a string that is no address or no legal
\* destination, and a blocked address.
Recipients == {"valid", "malformed", "blocked"}

\* s.minimum_withdrawal_amount of the modelled minter (line 585).
minimum_withdrawal_amount == 10

Amounts == {minimum_withdrawal_amount - 1, minimum_withdrawal_amount}

TransferResults == {"ok", "ledger_error", "call_error"}

IdleWithdrawCall ==
    [pc |-> "idle", caller |-> "", outcome |-> "none", busy_at_start |-> FALSE,
     ledger_called |-> FALSE, recorded |-> FALSE]

\* guard::retrieve_eth_guard(principal): an error while a guard of the same
\* principal is alive.
retrieve_eth_guard(principal) == principal \notin retrieve_eth_principals

\* Lines 568-573 with the guard left out.
WithdrawGuardSkipped(caller) == TRUE

\* Lines 568-573: the call goes on only with the guard of its caller.
WithdrawGuardAcquired(caller) == retrieve_eth_guard(caller)

\* Another withdraw_eth call of this caller is suspended on the ledger.
CallerInFlight(w, caller) ==
    \E o \in WithdrawSlots \ {w} :
        withdraw_call[o].pc = "transfer_from" /\ withdraw_call[o].caller = caller

\* withdraw_eth, first message execution: lines 564-609.  A trap rolls the
\* guard back, a return drops it.
WithdrawStart(w, caller, recipient, amount) ==
    /\ minter_budget.withdraw > 0
    /\ minter_budget' = [minter_budget EXCEPT !.withdraw = @ - 1]
    /\ withdraw_call[w].pc = "idle"
    /\ LET c == [IdleWithdrawCall EXCEPT !.caller = caller,
                                         !.busy_at_start = CallerInFlight(w, caller)]
           outcome == IF caller = "anonymous" THEN "trap_anonymous"
                      ELSE IF ~WithdrawGuardAcquired(caller) THEN "trap_guard"
                      ELSE IF recipient = "malformed" THEN "trap_recipient"
                      ELSE IF recipient = "blocked" THEN "trap_blocked"
                      ELSE IF amount < minimum_withdrawal_amount THEN "AmountTooLow"
                      ELSE "none"
       IN IF outcome # "none"
          THEN /\ withdraw_call' = [withdraw_call EXCEPT ![w] = [c EXCEPT !.outcome = outcome]]
               /\ UNCHANGED <<retrieve_eth_principals, ledger_burns>>
          ELSE /\ withdraw_call' = [withdraw_call EXCEPT ![w] =
                                       [c EXCEPT !.pc = "transfer_from",
                                                 !.ledger_called = TRUE]]
               /\ retrieve_eth_principals' = retrieve_eth_principals \cup {caller}
               /\ ledger_burns' = [ledger_burns EXCEPT ![caller] = @ + 1]
    /\ UNCHANGED <<rootVars, serverVars, componentVars, guard_refused, depositStateVars, finalizeVars, ethereum_contract_address,
                   last_scraped_block_number, last_observed_block_number, active_tasks,
                   withdrawal_requests, scrap, mint, mint_timers, events_query,
                   ledger_mints, scraped_upto, rescraped>>

\* EventType::AcceptedEthWithdrawalRequest (lines 794-802), by its burn index.
AcceptedEthWithdrawalRequest(ledger_burn_index) ==
    [type |-> "AcceptedEthWithdrawalRequest", source |-> ledger_burn_index,
     block_number |-> 0, reason |-> <<>>]

\* eth_transactions.record_withdrawal_request(request) (lines 625-628): the
\* request is queued and its audit event is recorded.
record_withdrawal_request(s, request) ==
    [withdrawal_requests |-> Append(s.withdrawal_requests, request),
     event_log |-> Append(s.event_log,
                          AcceptedEthWithdrawalRequest(request.ledger_burn_index))]

\* Lines 610-649 where a rejection by the ledger is taken for a burn.
TransferFromRepliedAtAll(result) == result # "call_error"

\* The arm Ok(Ok(block_index)) of lines 610-611: the ledger made the burn.
TransferFromReturnedBlockIndex(result) == result = "ok"

\* The response to transfer_from: lines 610-649; the guard is dropped.
WithdrawResponse(w, result) ==
    /\ withdraw_call[w].pc = "transfer_from"
    /\ LET c == withdraw_call[w]
           s == record_withdrawal_request(
                   [withdrawal_requests |-> withdrawal_requests, event_log |-> event_log],
                   [caller |-> c.caller,
                    ledger_burn_index |-> Len(withdrawal_requests) + 1])
       IN /\ IF TransferFromReturnedBlockIndex(result)
             THEN /\ withdrawal_requests' = s.withdrawal_requests
                  /\ event_log' = s.event_log
                  /\ withdraw_call' = [withdraw_call EXCEPT ![w] =
                        [c EXCEPT !.pc = "idle", !.outcome = result, !.recorded = TRUE]]
             ELSE /\ UNCHANGED <<withdrawal_requests, event_log>>
                  /\ withdraw_call' = [withdraw_call EXCEPT ![w] =
                        [c EXCEPT !.pc = "idle", !.outcome = result]]
          /\ retrieve_eth_principals' = retrieve_eth_principals \ {c.caller}
    /\ UNCHANGED <<rootVars, serverVars, componentVars, guard_refused, finalizeVars,
                   events_to_mint, minted_events, invalid_events,
                   ethereum_contract_address, last_scraped_block_number,
                   last_observed_block_number, active_tasks, scrap, mint, mint_timers,
                   events_query, ledger_mints, ledger_burns, scraped_upto, rescraped,
                   minter_budget>>

(***************************************************************************)
(* ckETH minter: finalize_transactions_batch                               *)
(***************************************************************************)
\* Bounds of the finalization model
MaxFinalizePasses == 2
MaxTxCount == 2

\* Sent transactions: [hash, withdrawal_id, nonce].  A resubmission has the
\* withdrawal id and the nonce of the transaction it replaces.
SentUniverse ==
    {[hash |-> 1, withdrawal_id |-> 1, nonce |-> 0],
     [hash |-> 2, withdrawal_id |-> 1, nonce |-> 0],
     [hash |-> 3, withdrawal_id |-> 2, nonce |-> 1]}

\* Answers to eth_get_transaction_receipt: Ok(Some(receipt)), Ok(None), Err.
ReceiptResults == {"receipt", "none", "err"}

IdleFinalize ==
    [pc |-> "idle", outcome |-> "none", txs |-> <<>>, results |-> <<>>,
     sent_before |-> {}, finalized_before |-> {}]

TxByHash(S, h) == CHOOSE t \in S : t.hash = h

\* eth_transactions.sent_transactions_to_finalize(finalized_tx_count): the
\* sent transactions with a nonce below the count, in the order of their hash.
sent_transactions_to_finalize(finalized_tx_count) ==
    LET S == {t \in sent_tx : t.nonce < finalized_tx_count}
        hashes == SetToSortedSeq({t.hash : t \in S})
    IN [i \in DOMAIN hashes |-> TxByHash(S, hashes[i])]

\* eth_transactions.record_finalized_transaction(withdrawal_id, receipt).
record_finalized_transaction(s, withdrawal_id, hash) ==
    [sent_tx |-> {t \in s.sent_tx : t.withdrawal_id # withdrawal_id},
     finalized_tx |-> s.finalized_tx \cup
                         {[withdrawal_id |-> withdrawal_id, hash |-> hash]}]

\* Lines 479-508 where a second receipt for a withdrawal id replaces the first.
RECURSIVE CollectReceiptsOverwrite(_, _, _)
CollectReceiptsOverwrite(txs, results, receipts) ==
    IF txs = <<>> THEN [kind |-> "collected", receipts |-> receipts]
    ELSE LET tx == Head(txs)
         IN IF Head(results) = "err"
            THEN [kind |-> "abort_error", receipts |-> {}]
            ELSE CollectReceiptsOverwrite(
                    Tail(txs), Tail(results),
                    IF Head(results) = "receipt"
                    THEN {r \in receipts : r.withdrawal_id # tx.withdrawal_id} \cup
                         {[withdrawal_id |-> tx.withdrawal_id, hash |-> tx.hash]}
                    ELSE receipts)

\* Lines 478-508: the receipts by withdrawal id, or the early return.
RECURSIVE CollectReceiptsFrom(_, _, _)
CollectReceiptsFrom(txs, results, receipts) ==
    IF txs = <<>> THEN [kind |-> "collected", receipts |-> receipts]
    ELSE LET tx == Head(txs)
             known == \E r \in receipts : r.withdrawal_id = tx.withdrawal_id
         IN CASE Head(results) = "receipt" /\ known ->
                    [kind |-> "abort_duplicate", receipts |-> {}]
              [] Head(results) = "receipt" /\ ~known ->
                    CollectReceiptsFrom(Tail(txs), Tail(results),
                        receipts \cup {[withdrawal_id |-> tx.withdrawal_id,
                                        hash |-> tx.hash]})
              [] Head(results) = "none" ->
                    CollectReceiptsFrom(Tail(txs), Tail(results), receipts)
              [] OTHER -> [kind |-> "abort_error", receipts |-> {}]

CollectReceipts(txs, results, receipts) == CollectReceiptsFrom(txs, results, receipts)

\* Lines 514-519: the for loop over the receipts, in the order of the ids.
RECURSIVE RecordReceipts(_, _)
RecordReceipts(s, receipts) ==
    IF receipts = {} THEN s
    ELSE LET r == CHOOSE x \in receipts :
                    \A y \in receipts : x.withdrawal_id <= y.withdrawal_id
         IN RecordReceipts(record_finalized_transaction(s, r.withdrawal_id, r.hash),
                           receipts \ {r})

\* The end of a pass.  After a panic the guard is dropped or not, depending
\* on whether the cleanup of the call drops the future.
FinalizeEnd(outcome, results, dropped) ==
    /\ finalize' = [finalize EXCEPT !.pc = "idle", !.outcome = outcome,
                                    !.results = results]
    /\ active_tasks' = IF dropped THEN active_tasks \ {"RetrieveEth"} ELSE active_tasks

finalizeFrame ==
    UNCHANGED <<rootVars, serverVars, componentVars, depositStateVars, withdrawVars, ethereum_contract_address,
                last_scraped_block_number, last_observed_block_number, scrap, mint,
                mint_timers, events_query, ledger_mints, scraped_upto, rescraped>>

\* The timer of process_retrieve_eth_requests fires: the RetrieveEth guard
\* (lines 289-299, a return when it is held), then the finalization step,
\* lines 458-463.
FinalizeStart ==
    /\ minter_budget.finalize > 0
    /\ minter_budget' = [minter_budget EXCEPT !.finalize = @ - 1]
    /\ guard_refused' = IF TimerGuardFree("RetrieveEth") THEN guard_refused
                         ELSE guard_refused \cup {"RetrieveEth"}
    /\ IF ~TimerGuardFree("RetrieveEth")
       THEN UNCHANGED <<finalize, active_tasks>>
       ELSE IF sent_tx = {}
       THEN /\ finalize' = [IdleFinalize EXCEPT !.outcome = "nothing_sent"]
            /\ UNCHANGED active_tasks
       ELSE /\ finalize' = [IdleFinalize EXCEPT !.pc = "count",
                                                !.sent_before = sent_tx,
                                                !.finalized_before = finalized_tx]
            /\ active_tasks' = active_tasks \cup {"RetrieveEth"}
    /\ UNCHANGED <<sent_tx, finalized_tx>>
    /\ finalizeFrame

\* The response to finalized_transaction_count: lines 463-477 and 522-524.
FinalizeCountResponse(result) ==
    /\ finalize.pc = "count"
    /\ IF result = None
       THEN FinalizeEnd("count_error", <<>>, TRUE)
       ELSE LET txs == sent_transactions_to_finalize(result[1])
            IN IF txs = <<>>
               THEN FinalizeEnd("nothing_to_finalize", <<>>, TRUE)
               ELSE /\ finalize' = [finalize EXCEPT !.pc = "receipts", !.txs = txs]
                    /\ UNCHANGED active_tasks
    /\ UNCHANGED <<sent_tx, finalized_tx, guard_refused, minter_budget>>
    /\ finalizeFrame

\* The responses to the eth_get_transaction_receipt calls: lines 477-519.
FinalizeReceiptsResponse(results, cleanup) ==
    /\ finalize.pc = "receipts"
    /\ Len(results) = Len(finalize.txs)
    /\ LET collected == CollectReceipts(finalize.txs, results, {})
           expected_finalized_withdrawal_ids ==
               {finalize.txs[i].withdrawal_id : i \in DOMAIN finalize.txs}
           actual_finalized_withdrawal_ids ==
               {r.withdrawal_id : r \in collected.receipts}
           s == RecordReceipts([sent_tx |-> sent_tx, finalized_tx |-> finalized_tx],
                               collected.receipts)
       IN IF collected.kind # "collected"
          THEN /\ FinalizeEnd(collected.kind, results, TRUE)
               /\ UNCHANGED <<sent_tx, finalized_tx>>
          ELSE IF expected_finalized_withdrawal_ids # actual_finalized_withdrawal_ids
          THEN /\ FinalizeEnd("panic_unexpected_receipts", results, cleanup)
               /\ UNCHANGED <<sent_tx, finalized_tx>>
          ELSE /\ FinalizeEnd("finalized", results, TRUE)
               /\ sent_tx' = s.sent_tx
               /\ finalized_tx' = s.finalized_tx
    /\ UNCHANGED <<guard_refused, minter_budget>>
    /\ finalizeFrame

(***************************************************************************)
(* ckETH minter: process_retrieve_eth_requests                             *)
(***************************************************************************)
\* Bounds of the withdrawal pipeline
MaxRetrieveRounds == 2
MaxRetrieveFaults == 2
MaxQueued == 6

\* withdrawal_requests_batch(5), line 350.
WithdrawalBatchSize == 5

\* The max_transaction_fee of the price estimated from the fee history: below
\* every withdrawal amount, or above the smallest one.
TransactionFees == {minimum_withdrawal_amount - 5, 2 * minimum_withdrawal_amount}

\* The amount of the withdrawal request with a burn index: every third
\* request is for the minimum amount, the others for three times as much.
WithdrawalAmountOf(ledger_burn_index) ==
    IF ledger_burn_index % 3 = 2 THEN minimum_withdrawal_amount
    ELSE 3 * minimum_withdrawal_amount

QueuedRequest(ledger_burn_index) ==
    [caller |-> "p1", ledger_burn_index |-> ledger_burn_index]

\* The hash of a transaction: one per nonce and per resubmission of it.
TxHash(nonce, version) == nonce * 10 + version + 1
TxVersion(tx) == (tx.hash - 1) % 10

Transaction(withdrawal_id, nonce, version) ==
    [hash |-> TxHash(nonce, version), withdrawal_id |-> withdrawal_id, nonce |-> nonce]

\* created_transactions_iter and signed_transactions_iter (lines 382-386 and
\* 410-415): the transactions of a table in the order of their nonces.
TxSeq(S) ==
    LET hashes == SetToSortedSeq({t.hash : t \in S})
    IN [i \in DOMAIN hashes |-> TxByHash(S, hashes[i])]

\* Answers to eth_sendRawTransaction (lines 426-453): the two results that
\* count as sent, another result, a JSON-RPC error, a failed HTTP call.
SendRawTransactionResults ==
    {"Ok", "NonceTooLow", "InsufficientFunds", "JsonRpcError", "HttpError"}

IdleRetrieve == [pc |-> "idle", outcome |-> "none", price |-> 0, batch |-> <<>>]

\* What the last round did: the queue and the nonce before the creation, the
\* transactions created and the requests rescheduled in their order, the
\* batches signed and sent with the answers they got.
NoRound ==
    [queue_before |-> <<>>, nonce_before |-> 0, created |-> <<>>, rescheduled |-> <<>>,
     sign_batch |-> <<>>, sign_ok |-> {}, send_batch |-> <<>>, send_ok |-> {},
     send_nonce_too_low |-> {}]

\* eth_transactions.nothing_to_process() (line 301).
nothing_to_process ==
    withdrawal_requests = <<>> /\ created_tx = {} /\ signed_tx = {} /\ sent_tx = {}

\* eth_transactions.withdrawal_requests_batch(n) (line 350): the first n
\* requests of the queue.
withdrawal_requests_batch(queue, n) == SubSeq(queue, 1, MinNat(n, Len(queue)))

RemoveRequest(queue, request) == SelectSeq(queue, LAMBDA r : r # request)

\* transactions::create_transaction (line 354): a transaction at the nonce, or
\* InsufficientAmount when the amount does not cover the maximum fee.
create_transaction(request, nonce, max_transaction_fee) ==
    IF WithdrawalAmountOf(request.ledger_burn_index) < max_transaction_fee
    THEN None
    ELSE Some(Transaction(request.ledger_burn_index, nonce, 0))

\* eth_transactions.record_created_transaction(request, tx) (line 361): the
\* request leaves the queue and the next nonce advances.
record_created_transaction(s, request, tx) ==
    [s EXCEPT !.withdrawal_requests = RemoveRequest(@, request),
              !.created_tx = @ \cup {tx},
              !.next_transaction_nonce = @ + 1,
              !.created = Append(@, tx)]

\* eth_transactions.reschedule_withdrawal_request(request) (line 374): the
\* request goes to the back of the queue.
reschedule_withdrawal_request(s, request) ==
    [s EXCEPT !.withdrawal_requests = Append(RemoveRequest(@, request), request),
              !.rescheduled = Append(@, request)]

\* The for loop of create_transactions_batch (lines 350-377).  With reread
\* the nonce is read in every iteration (line 353), else once before the loop.
RECURSIVE CreateLoop(_, _, _, _, _)
CreateLoop(s, batch, max_transaction_fee, reread, nonce0) ==
    IF batch = <<>> THEN s
    ELSE LET request == Head(batch)
             nonce == IF reread THEN s.next_transaction_nonce ELSE nonce0
             tx == create_transaction(request, nonce, max_transaction_fee)
         IN CreateLoop(IF tx # None THEN record_created_transaction(s, request, tx[1])
                       ELSE reschedule_withdrawal_request(s, request),
                       Tail(batch), max_transaction_fee, reread, nonce0)

\* Lines 349-378 with the nonce read once, before the loop.
CreateTransactionsBatchNonceReadOnce(s, max_transaction_fee) ==
    CreateLoop(s, withdrawal_requests_batch(s.withdrawal_requests, WithdrawalBatchSize),
               max_transaction_fee, FALSE, s.next_transaction_nonce)

\* create_transactions_batch (lines 349-378).
create_transactions_batch(s, max_transaction_fee) ==
    CreateLoop(s, withdrawal_requests_batch(s.withdrawal_requests, WithdrawalBatchSize),
               max_transaction_fee, TRUE, 0)

\* eth_transactions.create_resubmit_transactions(latest_tx_count, price)
\* (lines 324-327): a replacement at the same nonce for the newest sent
\* transaction of every nonce that is not mined, unless one is under way.
create_resubmit_transactions(latest_tx_count) ==
    {Transaction(t.withdrawal_id, t.nonce, TxVersion(t) + 1) :
        t \in {t \in sent_tx :
                 /\ t.nonce >= latest_tx_count
                 /\ \A o \in sent_tx : o.nonce = t.nonce => o.hash <= t.hash
                 /\ \A o \in created_tx \cup signed_tx : o.nonce # t.nonce}}

\* The for loop of sign_transactions_batch (lines 390-398) that gives up at
\* the first error.
RECURSIVE SignLoopUntilError(_, _, _)
SignLoopUntilError(s, batch, signed_ok) ==
    IF batch = <<>> \/ Head(batch) \notin signed_ok THEN s
    ELSE SignLoopUntilError([created_tx |-> s.created_tx \ {Head(batch)},
                             signed_tx |-> s.signed_tx \cup {Head(batch)}],
                            Tail(batch), signed_ok)

\* The for loop of sign_transactions_batch (lines 390-398):
\* record_signed_transaction for every Ok, the errors are collected.
RECURSIVE SignLoop(_, _, _)
SignLoop(s, batch, signed_ok) ==
    IF batch = <<>> THEN s
    ELSE SignLoop(IF Head(batch) \in signed_ok
                  THEN [created_tx |-> s.created_tx \ {Head(batch)},
                        signed_tx |-> s.signed_tx \cup {Head(batch)}]
                  ELSE s,
                  Tail(batch), signed_ok)

\* Lines 426-441 with the NonceTooLow arm left out.
SendResultRecordedOnlyOk(result) == result = "Ok"

\* The two arms of lines 426-441 that call record_sent_transaction.
SendResultRecorded(result) == result \in {"Ok", "NonceTooLow"}

\* The for loop of send_transactions_batch (lines 424-455) over the
\* transactions zipped with their results.
RECURSIVE SendLoop(_, _, _)
SendLoop(s, batch, results) ==
    IF batch = <<>> THEN s
    ELSE SendLoop(IF SendResultRecorded(Head(results))
                  THEN [signed_tx |-> s.signed_tx \ {Head(batch)},
                        sent_tx |-> s.sent_tx \cup {Head(batch)}]
                  ELSE s,
                  Tail(batch), Tail(results))

\* The answers of a batch that are not a plain Ok.
SendFaults(results) == Cardinality({i \in DOMAIN results : results[i] # "Ok"})

retrieveFrame ==
    UNCHANGED <<rootVars, serverVars, tlsVars, swapVars, ckbtcVars, depositStateVars,
                finalized_tx, ethereum_contract_address, last_scraped_block_number,
                last_observed_block_number, retrieve_eth_principals, withdraw_call,
                ledger_burns, scrap, mint, mint_timers, events_query, ledger_mints,
                scraped_upto, rescraped, minter_budget>>

\* Line 316 and lines 458-463: finalize_transactions_batch returns when
\* nothing is sent, and the round ends; else it asks for the finalized count.
RetrieveToFinalize(r, sent) ==
    IF sent = {}
    THEN /\ retrieve' = [r EXCEPT !.pc = "idle", !.outcome = "done", !.batch = <<>>]
         /\ active_tasks' = active_tasks \ {"RetrieveEth"}
         /\ UNCHANGED finalize
    ELSE /\ retrieve' = [r EXCEPT !.pc = "idle", !.outcome = "finalizing", !.batch = <<>>]
         /\ finalize' = [IdleFinalize EXCEPT !.pc = "count", !.sent_before = sent,
                                             !.finalized_before = finalized_tx]
         /\ UNCHANGED active_tasks

\* Line 315 and lines 410-423: the signed transactions are sent, all at once.
RetrieveToSend(r, signed, sent) ==
    IF signed = {} THEN RetrieveToFinalize(r, sent)
    ELSE /\ retrieve' = [r EXCEPT !.pc = "send", !.batch = TxSeq(signed)]
         /\ UNCHANGED <<finalize, active_tasks>>

\* Line 314 and lines 381-389: the created transactions are signed, all at once.
RetrieveToSign(r, created, signed, sent) ==
    IF created = {} THEN RetrieveToSend(r, signed, sent)
    ELSE /\ retrieve' = [r EXCEPT !.pc = "sign", !.batch = TxSeq(created)]
         /\ UNCHANGED <<finalize, active_tasks>>

\* Lines 313-314: create_transactions_batch, then the start of the signing.
RetrieveCreate(r, created) ==
    LET s == create_transactions_batch(
                [withdrawal_requests |-> withdrawal_requests, created_tx |-> created,
                 next_transaction_nonce |-> next_transaction_nonce,
                 created |-> <<>>, rescheduled |-> <<>>], r.price)
    IN /\ withdrawal_requests' = s.withdrawal_requests
       /\ created_tx' = s.created_tx
       /\ next_transaction_nonce' = s.next_transaction_nonce
       /\ retrieve_round' = [retrieve_round EXCEPT
                               !.queue_before = withdrawal_requests,
                               !.nonce_before = next_transaction_nonce,
                               !.created = s.created, !.rescheduled = s.rescheduled]
       /\ RetrieveToSign(r, s.created_tx, signed_tx, sent_tx)

\* The timer of process_retrieve_eth_requests fires: lines 289-305.
RetrieveStart ==
    /\ retrieve_budget.rounds > 0
    /\ retrieve_budget' = [retrieve_budget EXCEPT !.rounds = @ - 1]
    /\ guard_refused' = IF TimerGuardFree("RetrieveEth") THEN guard_refused
                         ELSE guard_refused \cup {"RetrieveEth"}
    /\ IF ~TimerGuardFree("RetrieveEth") \/ nothing_to_process
       THEN UNCHANGED <<active_tasks, retrieve, retrieve_round>>
       ELSE /\ active_tasks' = active_tasks \cup {"RetrieveEth"}
            /\ retrieve' = [IdleRetrieve EXCEPT !.pc = "fee_history"]
            /\ retrieve_round' = NoRound
    /\ UNCHANGED <<withdrawal_requests, created_tx, signed_tx, sent_tx,
                   next_transaction_nonce, finalize>>
    /\ retrieveFrame

\* The response to eth_fee_history: lines 305-314, 319-323 and 659-670.  A
\* failed call panics; the guard is then dropped or not, depending on
\* whether the cleanup of the call drops the future.
RetrieveFeeHistoryResponse(result, cleanup) ==
    /\ retrieve.pc = "fee_history"
    /\ IF result = None
       THEN /\ retrieve' = [retrieve EXCEPT !.pc = "idle", !.outcome = "panic"]
            /\ active_tasks' = IF cleanup THEN active_tasks \ {"RetrieveEth"}
                               ELSE active_tasks
            /\ UNCHANGED <<withdrawal_requests, created_tx, next_transaction_nonce,
                           retrieve_round, finalize>>
       ELSE LET r == [retrieve EXCEPT !.price = result[1]]
            IN IF sent_tx = {}
               THEN RetrieveCreate(r, created_tx)
               ELSE /\ retrieve' = [r EXCEPT !.pc = "latest_count"]
                    /\ UNCHANGED <<withdrawal_requests, created_tx,
                                   next_transaction_nonce, retrieve_round, finalize,
                                   active_tasks>>
    /\ UNCHANGED <<signed_tx, sent_tx, guard_refused, retrieve_budget>>
    /\ retrieveFrame

\* The response to latest_transaction_count: lines 323-346, then lines 313-314.
RetrieveLatestCountResponse(result) ==
    /\ retrieve.pc = "latest_count"
    /\ RetrieveCreate(retrieve,
                      IF result = None THEN created_tx
                      ELSE created_tx \cup create_resubmit_transactions(result[1]))
    /\ UNCHANGED <<signed_tx, sent_tx, guard_refused, retrieve_budget>>
    /\ retrieveFrame

\* The responses to the sign calls: lines 389-408, then line 315.
RetrieveSignResponse(signed_ok) ==
    /\ retrieve.pc = "sign"
    /\ signed_ok \subseteq SeqToSet(retrieve.batch)
    /\ Len(retrieve.batch) - Cardinality(signed_ok) <= retrieve_budget.faults
    /\ retrieve_budget' = [retrieve_budget EXCEPT
                             !.faults = @ - (Len(retrieve.batch) - Cardinality(signed_ok))]
    /\ LET s == SignLoop([created_tx |-> created_tx, signed_tx |-> signed_tx],
                         retrieve.batch, signed_ok)
       IN /\ created_tx' = s.created_tx
          /\ signed_tx' = s.signed_tx
          /\ retrieve_round' = [retrieve_round EXCEPT !.sign_batch = retrieve.batch,
                                                      !.sign_ok = signed_ok]
          /\ RetrieveToSend(retrieve, s.signed_tx, sent_tx)
    /\ UNCHANGED <<withdrawal_requests, sent_tx, next_transaction_nonce, guard_refused>>
    /\ retrieveFrame

\* The responses to eth_sendRawTransaction: lines 424-455, then line 316.
RetrieveSendResponse(results) ==
    /\ retrieve.pc = "send"
    /\ Len(results) = Len(retrieve.batch)
    /\ SendFaults(results) <= retrieve_budget.faults
    /\ retrieve_budget' = [retrieve_budget EXCEPT !.faults = @ - SendFaults(results)]
    /\ LET s == SendLoop([signed_tx |-> signed_tx, sent_tx |-> sent_tx],
                         retrieve.batch, results)
       IN /\ signed_tx' = s.signed_tx
          /\ sent_tx' = s.sent_tx
          /\ retrieve_round' =
                [retrieve_round EXCEPT
                    !.send_batch = retrieve.batch,
                    !.send_ok = {retrieve.batch[i] : i \in
                                    {j \in DOMAIN results : results[j] = "Ok"}},
                    !.send_nonce_too_low = {retrieve.batch[i] : i \in
                                    {j \in DOMAIN results : results[j] = "NonceTooLow"}}]
          /\ RetrieveToFinalize(retrieve, s.sent_tx)
    /\ UNCHANGED <<withdrawal_requests, created_tx, next_transaction_nonce,
                   guard_refused>>
    /\ retrieveFrame

\* The withdrawal pipeline in the other specifications: it takes no step.
RetrieveIdle ==
    /\ created_tx = {}
    /\ signed_tx = {}
    /\ next_transaction_nonce = 0
    /\ retrieve = IdleRetrieve
    /\ retrieve_round = NoRound
    /\ retrieve_budget = [rounds |-> 0, faults |-> 0]

(***************************************************************************)
(* ckETH minter: get_events                                                *)
(***************************************************************************)
MAX_EVENTS_PER_RESPONSE == 100

\* A u64 as [hi, lo]: the number hi * 2^32 + lo, with hi and lo below 2^32.
U64(hi, lo) == [hi |-> hi, lo |-> lo]

\* Lengths of the event log, and start and length arguments.
LogLengths == {0, 1, 3, 250}
QueryStarts == {U64(0, 0), U64(0, 1), U64(0, 3), U64(0, 249), U64(0, 250), U64(1, 0), U64(1, 1)}
QueryLengths == {U64(0, 0), U64(0, 1), U64(0, 2), U64(0, 100), U64(0, 101), U64(0, 1000), U64(1, 0)}

\* The width of usize: 32 bits in the wasm32 build of the canister, 64 bits
\* in a native build.
UsizeBits == {32, 64}

\* x.min(MAX_EVENTS_PER_RESPONSE) as usize, for a u64 x: at most 100.
MinWithMax(x) ==
    IF x.hi > 0 THEN MAX_EVENTS_PER_RESPONSE ELSE MinNat(x.lo, MAX_EVENTS_PER_RESPONSE)

\* it.skip(x as usize) on an iterator of n < 2^32 items: the number of items
\* skipped.  `as usize` keeps the low 32 bits of x when usize has 32 bits.
SkipCount(x, n, usize_bits) ==
    IF usize_bits = 64 /\ x.hi > 0 THEN n ELSE MinNat(x.lo, n)

\* map_event (lines 755-823): the candid form of an event.
map_event(event) ==
    [payload |-> [kind |-> event.type, event_source |-> event.source,
                  block_number |-> event.block_number, reason |-> event.reason]]

IdleEventsQuery(usize_bits) ==
    [usize_bits |-> usize_bits, called |-> FALSE, start |-> U64(0, 0),
     length |-> U64(0, 0), events |-> <<>>, total_event_count |-> 0]

\* get_events (lines 738-836).
get_events(start, length) ==
    /\ LET skipped == SkipCount(start, Len(event_log), events_query.usize_bits)
           taken == MinNat(MinWithMax(length), Len(event_log) - skipped)
       IN events_query' =
            [events_query EXCEPT
                !.called = TRUE, !.start = start, !.length = length,
                !.events = [i \in 1..taken |-> map_event(event_log[skipped + i])],
                !.total_event_count = Len(event_log)]
    /\ UNCHANGED <<rootVars, serverVars, componentVars, guard_refused, depositStateVars, withdrawVars, finalizeVars,
                   ethereum_contract_address, last_scraped_block_number,
                   last_observed_block_number, active_tasks, scrap, mint, mint_timers,
                   ledger_mints, scraped_upto, rescraped, minter_budget>>

(***************************************************************************)
(* PocketIC server                                                         *)
(***************************************************************************)
NumServers == 2
MaxRequests == 3
MaxServerTicks == 2

TTL_SEC == 60

\* The server processes started with the same --pid argument.
ServerProcs == 1..NumServers

\* Bodies of POST /blobstore requests: byte strings.
BlobBodies == {<<>>, <<7>>, <<7, 200>>}

\* Content-Encoding request headers: absent, gzip, another encoding.
ContentEncodings == {None, Some("gzip"), Some("deflate")}

StatusOK == 200
StatusBadRequest == 400
StatusNotFound == 404

DigestLength == 32

HexLower == <<"0", "1", "2", "3", "4", "5", "6", "7", "8", "9",
              "a", "b", "c", "d", "e", "f">>
HexUpper == <<"0", "1", "2", "3", "4", "5", "6", "7", "8", "9",
              "A", "B", "C", "D", "E", "F">>

\* hex::encode: two lower-case digits per byte.
hex_encode(bytes) ==
    [i \in 1..(2 * Len(bytes)) |->
        LET b == bytes[(i + 1) \div 2]
        IN IF i % 2 = 1 THEN HexLower[(b \div 16) + 1] ELSE HexLower[(b % 16) + 1]]

\* The value of a hex digit of either case, -1 for any other character.
HexValue(c) ==
    IF \E k \in 1..16 : HexLower[k] = c
    THEN (CHOOSE k \in 1..16 : HexLower[k] = c) - 1
    ELSE IF \E k \in 1..16 : HexUpper[k] = c
    THEN (CHOOSE k \in 1..16 : HexUpper[k] = c) - 1
    ELSE -1

\* hex::decode: an error for a string of odd length or with a character that
\* is no hex digit, else the bytes.
hex_decode(id) ==
    IF Len(id) % 2 = 1 THEN [ok |-> FALSE, bytes |-> <<>>]
    ELSE IF \E i \in 1..Len(id) : HexValue(id[i]) < 0
         THEN [ok |-> FALSE, bytes |-> <<>>]
    ELSE [ok |-> TRUE,
          bytes |-> [i \in 1..(Len(id) \div 2) |->
                        16 * HexValue(id[2 * i - 1]) + HexValue(id[2 * i])]]

\* The byte string as a number, with its length: distinct for distinct bodies.
RECURSIVE BytesToNat(_)
BytesToNat(bytes) ==
    IF bytes = <<>> THEN 1
    ELSE 256 * BytesToNat(SubSeq(bytes, 1, Len(bytes) - 1)) + bytes[Len(bytes)]

\* Sha256 of the data of a blob (lines 383-385): a digest of 32 bytes, with
\* no collision among the bodies of BlobBodies.
Sha256(data) ==
    LET n == BytesToNat(data)
    IN [i \in 1..DigestLength |->
          IF i = 1 THEN n % 256
          ELSE IF i = 2 THEN (n \div 256) % 256
          ELSE IF i = 3 THEN (n \div 65536) % 256
          ELSE (n + 31 * i) % 256]

EmptyBlobStore == [k \in {} |-> 0]

\* InMemoryBlobStore::store (lines 382-389): insert under the digest.
store(map, blob) ==
    LET key == Sha256(blob.data)
    IN [k \in (DOMAIN map) \cup {key} |-> IF k = key THEN blob ELSE map[k]]

\* InMemoryBlobStore::fetch (lines 391-394).
fetch(map, blob_id) ==
    IF blob_id \in DOMAIN map THEN Some(map[blob_id]) ELSE None

GetBlobStoreEntryNoLengthCheck(map, id) ==
    LET hash == hex_decode(id)
    IN IF ~hash.ok
       THEN [status |-> StatusBadRequest, content_encoding |-> None, body |-> <<>>]
       ELSE LET blob == fetch(map, hash.bytes)
            IN IF blob = None
               THEN [status |-> StatusOK, content_encoding |-> None, body |-> <<>>]
               ELSE [status |-> StatusOK,
                     content_encoding |-> IF blob[1].compression = "Gzip"
                                          THEN Some("gzip") ELSE None,
                     body |-> blob[1].data]

\* get_blob_store_entry (lines 251-281).
get_blob_store_entry(map, id) ==
    LET hash == hex_decode(id)
    IN IF ~hash.ok
       THEN [status |-> StatusBadRequest, content_encoding |-> None, body |-> <<>>]
       ELSE IF Len(hash.bytes) # DigestLength
       THEN [status |-> StatusBadRequest, content_encoding |-> None, body |-> <<>>]
       ELSE LET blob == fetch(map, hash.bytes)
            IN IF blob = None
               THEN [status |-> StatusNotFound, content_encoding |-> None, body |-> <<>>]
               ELSE IF blob[1].compression = "Gzip"
               THEN [status |-> StatusOK, content_encoding |-> Some("gzip"),
                     body |-> blob[1].data]
               ELSE [status |-> StatusOK, content_encoding |-> None,
                     body |-> blob[1].data]

\* set_blob_store_entry (lines 283-315), up to the call of store: the blob to
\* store, or the rejection of the encoding.
set_blob_store_entry(content_encoding, body) ==
    IF content_encoding = None
    THEN [ok |-> TRUE, blob |-> [data |-> body, compression |-> "NoCompression"]]
    ELSE IF content_encoding[1] = "gzip"
    THEN [ok |-> TRUE, blob |-> [data |-> body, compression |-> "Gzip"]]
    ELSE [ok |-> FALSE, blob |-> [data |-> <<>>, compression |-> "NoCompression"]]

\* Ids of GET /blobstore/:id requests: the ids of the bodies, one of them in
\* upper case, the id of a blob that is never stored, and malformed ids (of
\* odd length, with a character that is no hex digit, of 31 and of 33 bytes).
StoredIdOf(body) == hex_encode(Sha256(body))
SomeBlobId == StoredIdOf(<<7>>)
UnknownBlobId == hex_encode([i \in 1..DigestLength |-> 255])
UpperCaseBlobId ==
    [i \in 1..Len(SomeBlobId) |->
        LET v == HexValue(SomeBlobId[i]) IN HexUpper[v + 1]]
MalformedBlobIds ==
    {SubSeq(SomeBlobId, 1, 2 * DigestLength - 1),
     [SomeBlobId EXCEPT ![1] = "g"],
     SubSeq(SomeBlobId, 1, 2 * DigestLength - 2),
     SomeBlobId \o <<"0", "0">>}
BlobIdStrings ==
    {StoredIdOf(b) : b \in BlobBodies} \cup {UnknownBlobId, UpperCaseBlobId}
        \cup MalformedBlobIds

\* The port file and the ready file of the pid: absent, or created by a
\* process (owner 0: left behind by a process that is gone).
AbsentFile == [exists |-> FALSE, owner |-> 0, written |-> FALSE]
StaleFile == [exists |-> TRUE, owner |-> 0, written |-> TRUE]

IdleServer ==
    [pc |-> "not_started", port_error |-> FALSE, ready_error |-> FALSE,
     served |-> FALSE, next_check |-> 0]

NoExchange ==
    [method |-> "none", server |-> 0, id |-> <<>>, status |-> 0,
     content_encoding |-> None, body |-> <<>>, request |-> <<>>, at |-> 0]

IsFirstServerNotExclusive(file) == TRUE

\* is_first_server (lines 226-233): create_new succeeds only if the file
\* does not exist.
is_first_server(file) == ~file.exists

\* A process answers requests from server.await (line 172) until its graceful
\* shutdown is over.
Accepting(p) == server[p].pc \in {"serving", "ready_removed", "shutting_down"}

serverFileVars == <<port_file, ready_file, server>>

\* start, lines 78-89: the process creates the port file or returns.
ServerStartup(p) ==
    /\ server[p].pc = "not_started"
    /\ IF is_first_server(port_file)
       THEN /\ port_file' = [exists |-> TRUE, owner |-> p, written |-> FALSE]
            /\ server' = [server EXCEPT ![p].pc = "created"]
       ELSE /\ server' = [server EXCEPT ![p].pc = "exited", ![p].port_error = TRUE]
            /\ UNCHANGED port_file
    /\ UNCHANGED <<rootVars, minterVars, componentVars, ready_file, blob_store, last_request,
                   server_now, http_exchange, posts, server_budget>>

\* start, lines 91-143: the state of the process is built, the port is bound
\* and written into the port file that the process holds open.
ServerWritePort(p) ==
    /\ server[p].pc = "created"
    /\ server' = [server EXCEPT ![p].pc = "bound"]
    /\ port_file' = IF port_file.exists /\ port_file.owner = p
                    THEN [port_file EXCEPT !.written = TRUE]
                    ELSE port_file
    /\ blob_store' = [blob_store EXCEPT ![p] = EmptyBlobStore]
    /\ last_request' = [last_request EXCEPT ![p] = server_now]
    /\ UNCHANGED <<rootVars, minterVars, componentVars, ready_file, server_now, http_exchange,
                   posts, server_budget>>

\* start, lines 145-172: the ready file is created, or the error is logged;
\* in both cases the process goes on to serve.
ServerCreateReady(p) ==
    /\ server[p].pc = "bound"
    /\ IF ~ready_file.exists
       THEN /\ ready_file' = [exists |-> TRUE, owner |-> p, written |-> TRUE]
            /\ server' = [server EXCEPT ![p].pc = "serving",
                                        ![p].next_check = server_now]
       ELSE /\ server' = [server EXCEPT ![p].pc = "serving", ![p].ready_error = TRUE,
                                        ![p].next_check = server_now]
            /\ UNCHANGED ready_file
    /\ UNCHANGED <<rootVars, minterVars, componentVars, port_file, blob_store, last_request,
                   server_now, http_exchange, posts, server_budget>>

TtlExceededAtTtl(elapsed) == elapsed >= TTL_SEC

\* Line 160: guard.elapsed() > Duration::from_secs(TTL_SEC).
TtlExceeded(elapsed) == elapsed > TTL_SEC

\* shutdown_signal, lines 158-168: one pass of the loop, run when the sleep
\* of the previous pass is over. A pass that finds the TTL exceeded leaves
\* the loop and removes the ready file; any other pass sleeps one second.
ServerShutdownCheck(p) ==
    /\ server[p].pc = "serving"
    /\ server_now >= server[p].next_check
    /\ IF TtlExceeded(server_now - last_request[p])
       THEN /\ ready_file' = AbsentFile
            /\ server' = [server EXCEPT ![p].pc = "ready_removed"]
       ELSE /\ server' = [server EXCEPT ![p].next_check = server_now + 1]
            /\ UNCHANGED ready_file
    /\ UNCHANGED <<rootVars, minterVars, componentVars, port_file, blob_store, last_request,
                   server_now, http_exchange, posts, server_budget>>

\* shutdown_signal, line 169: the port file is removed; the graceful shutdown
\* begins.
ServerRemovePortFile(p) ==
    /\ server[p].pc = "ready_removed"
    /\ port_file' = AbsentFile
    /\ server' = [server EXCEPT ![p].pc = "shutting_down"]
    /\ UNCHANGED <<rootVars, minterVars, componentVars, ready_file, blob_store, last_request,
                   server_now, http_exchange, posts, server_budget>>

\* Lines 171-173: the requests in flight are answered and the process ends.
ServerTerminate(p) ==
    /\ server[p].pc = "shutting_down"
    /\ server' = [server EXCEPT ![p].pc = "terminated"]
    /\ UNCHANGED <<rootVars, minterVars, componentVars, port_file, ready_file, blob_store,
                   last_request, server_now, http_exchange, posts, server_budget>>

\* Time passes.
ServerTick(d) ==
    /\ server_budget.ticks > 0
    /\ server_budget' = [server_budget EXCEPT !.ticks = @ - 1]
    /\ server_now' = server_now + d
    /\ UNCHANGED <<rootVars, minterVars, componentVars, serverFileVars, blob_store, last_request,
                   http_exchange, posts>>

\* A request reaches process p: bump_last_request_timestamp (lines 235-249)
\* runs before the handler.
HttpRequest(p) ==
    /\ Accepting(p)
    /\ server_budget.requests > 0
    /\ server_budget' = [server_budget EXCEPT !.requests = @ - 1]
    /\ last_request' = [last_request EXCEPT ![p] = server_now]
    /\ server' = [server EXCEPT ![p].served = TRUE]

\* GET /status.
HttpGetStatus(p) ==
    /\ HttpRequest(p)
    /\ http_exchange' = [NoExchange EXCEPT !.method = "GET /status", !.server = p, !.at = server_now,
                                           !.status = StatusOK]
    /\ UNCHANGED <<rootVars, minterVars, componentVars, port_file, ready_file, blob_store,
                   server_now, posts>>

\* POST /blobstore: set_blob_store_entry, lines 283-315.
HttpPostBlob(p, content_encoding, body) ==
    /\ HttpRequest(p)
    /\ LET r == set_blob_store_entry(content_encoding, body)
           blob_id == hex_encode(Sha256(r.blob.data))
       IN IF r.ok
          THEN /\ blob_store' = [blob_store EXCEPT ![p] = store(@, r.blob)]
               /\ http_exchange' =
                    [NoExchange EXCEPT !.method = "POST /blobstore", !.server = p, !.at = server_now,
                                       !.status = StatusOK, !.body = blob_id]
               /\ posts' = posts \cup
                    {[server |-> p, data |-> body,
                      gzip |-> content_encoding = Some("gzip"), id |-> blob_id]}
          ELSE /\ http_exchange' =
                    [NoExchange EXCEPT !.method = "POST /blobstore", !.server = p, !.at = server_now,
                       !.status = StatusBadRequest,
                       !.body = <<"Bad encoding: Only 'gzip' content encoding is supported">>]
               /\ UNCHANGED <<blob_store, posts>>
    /\ UNCHANGED <<rootVars, minterVars, componentVars, port_file, ready_file, server_now>>

\* GET /blobstore/:id: get_blob_store_entry, lines 251-281.
HttpGetBlob(p, id) ==
    /\ HttpRequest(p)
    /\ LET r == get_blob_store_entry(blob_store[p], id)
       IN http_exchange' =
            [method |-> "GET /blobstore/:id", server |-> p, id |-> id, at |-> server_now,
             status |-> r.status, content_encoding |-> r.content_encoding,
             body |-> r.body, request |-> <<>>]
    /\ UNCHANGED <<rootVars, minterVars, componentVars, port_file, ready_file, blob_store,
                   server_now, posts>>

\* A request for a path that matches none of the routes of lines 109-128.
\* bump_last_request_timestamp is attached with route_layer (lines 129-132),
\* which wraps the routes added before it and not the fallback of the router:
\* the fallback answers 404 and the middleware does not run.
HttpNoRoute(p) ==
    /\ Accepting(p)
    /\ server_budget.requests > 0
    /\ server_budget' = [server_budget EXCEPT !.requests = @ - 1]
    /\ http_exchange' = [NoExchange EXCEPT !.method = "no route", !.server = p, !.at = server_now,
                                           !.status = StatusNotFound]
    /\ UNCHANGED <<rootVars, minterVars, componentVars, serverFileVars, blob_store,
                   last_request, server_now, posts>>

StatusNotAcceptable == 406

\* The fields of RawVerifyCanisterSigArg as the three library calls of
\* verify_signature see them: whether public_key_bytes_from_der accepts
\* pubkey, whether parse_threshold_sig_key_from_der accepts root_pubkey, and
\* whether verify accepts the signature under the two keys.
VerifySignatureArgs ==
    [pubkey_der_ok : BOOLEAN, root_pubkey_der_ok : BOOLEAN, sig_verifies : BOOLEAN]

VerifySignatureInvalidAsBadRequest(arg) ==
    IF ~arg.pubkey_der_ok
    THEN [status |-> StatusBadRequest,
          body |-> <<"Err", "Failed to parse DER encoded public key">>]
    ELSE IF ~arg.root_pubkey_der_ok
    THEN [status |-> StatusBadRequest,
          body |-> <<"Err", "Failed to parse DER encoded root public key">>]
    ELSE IF ~arg.sig_verifies
    THEN [status |-> StatusBadRequest,
          body |-> <<"Err", "Canister signature verification failed">>]
    ELSE [status |-> StatusOK, body |-> <<"Ok">>]

\* verify_signature, lines 329-365: the public key is parsed first, then the
\* root public key, then the signature is verified.
verify_signature(arg) ==
    IF ~arg.pubkey_der_ok
    THEN [status |-> StatusBadRequest,
          body |-> <<"Err", "Failed to parse DER encoded public key">>]
    ELSE IF ~arg.root_pubkey_der_ok
    THEN [status |-> StatusBadRequest,
          body |-> <<"Err", "Failed to parse DER encoded root public key">>]
    ELSE IF ~arg.sig_verifies
    THEN [status |-> StatusNotAcceptable,
          body |-> <<"Err", "Canister signature verification failed">>]
    ELSE [status |-> StatusOK, body |-> <<"Ok">>]

\* POST /verify_signature.
HttpPostVerifySignature(p, arg) ==
    /\ HttpRequest(p)
    /\ LET r == verify_signature(arg)
       IN http_exchange' =
            [NoExchange EXCEPT !.method = "POST /verify_signature", !.server = p, !.at = server_now,
                               !.status = r.status, !.body = r.body,
                               !.request = <<arg>>]
    /\ UNCHANGED <<rootVars, minterVars, componentVars, port_file, ready_file, blob_store,
                   server_now, posts>>

\* The PocketIC server in the specifications of the canisters: no process of
\* it is started.
ServerIdle ==
    /\ port_file = AbsentFile
    /\ ready_file = AbsentFile
    /\ server = [p \in ServerProcs |-> IdleServer]
    /\ blob_store = [p \in ServerProcs |-> EmptyBlobStore]
    /\ last_request = [p \in ServerProcs |-> 0]
    /\ server_now = 0
    /\ http_exchange = NoExchange
    /\ posts = {}
    /\ server_budget = [requests |-> 0, ticks |-> 0]

(***************************************************************************)
(* Boundary node: TlsVerifier (tls_verify.rs)                              *)
(***************************************************************************)
NodeNames == {"node-a", "node-b"}
PublicKeys == {"key-1", "key-2"}
TlsTimes == 0..3

\* RegistrySnapshot.nodes: DNS name -> node, of which verify_server_cert
\* reads tls_certificate; the registry certificates parse (line 70) and a
\* node is given here by the subject public key of its certificate.
RegistrySnapshots ==
    {Some(nodes) : nodes \in UNION {[names -> PublicKeys] : names \in SUBSET NodeNames}}

\* The certificate presented in the handshake: whether its DER parses, the
\* key that signed it, and its validity interval.
EndEntityCertificates ==
    [der_ok : BOOLEAN, signed_by : PublicKeys, not_before : {1}, not_after : {0, 2}]

ServerNames ==
    [type : {"DnsName"}, name : NodeNames] \cup {[type |-> "IpAddress", name |-> ""]}

ServerCertVerified == [ok |-> TRUE, kind |-> "ServerCertVerified", detail |-> <<>>]

\* rustls::Error values.
RustlsError(kind, detail) == [ok |-> FALSE, kind |-> kind, detail |-> detail]

\* Line 43.
NoRoutingTableError == RustlsError("General", <<"no routing table published">>)

NodeNotFoundErrorAsNoTable(name) == NoRoutingTableError

\* Lines 52-55.
NodeNotFoundError(name) ==
    RustlsError("General", <<"Node '", name, "' not found in a routing table">>)

CertSignatureVerifiesSelfSigned(provided_cert, subject_pki) == TRUE

\* Lines 80-82: X509Certificate::verify_signature(Some(key)) accepts the
\* certificate exactly when key is the key that signed it.
CertSignatureVerifies(provided_cert, subject_pki) ==
    provided_cert.signed_by = subject_pki

\* Lines 85-92: Validity::is_valid_at.
is_valid_at(provided_cert, now) ==
    provided_cert.not_before <= now /\ now <= provided_cert.not_after

\* verify_server_cert, lines 30-97.
verify_server_cert(rs, end_entity, server_name, now) ==
    IF rs = None THEN NoRoutingTableError
    ELSE IF server_name.type # "DnsName"
    THEN RustlsError("UnsupportedNameType", <<>>)
    ELSE IF server_name.name \notin DOMAIN rs[1]
    THEN NodeNotFoundError(server_name.name)
    ELSE IF ~end_entity.der_ok
    THEN RustlsError("InvalidCertificate", <<"BadEncoding">>)
    ELSE IF ~CertSignatureVerifies(end_entity, rs[1][server_name.name])
    THEN RustlsError("InvalidCertificate", <<"BadSignature">>)
    ELSE IF ~is_valid_at(end_entity, now)
    THEN RustlsError("InvalidCertificate", <<"Expired">>)
    ELSE ServerCertVerified

NoHandshake ==
    [called |-> FALSE, rs |-> None, end_entity |-> <<>>, server_name |-> <<>>,
     now |-> 0, result |-> <<>>]

\* The owner of the ArcSwapOption (line 16) publishes a snapshot.
PublishSnapshot(rs) ==
    /\ rs # registry_snapshot
    /\ registry_snapshot' = rs
    /\ UNCHANGED <<rootVars, minterVars, serverVars, retrieveVars, swapVars, ckbtcVars, tls_handshake>>

\* rustls calls verify_server_cert during a handshake.
VerifyServerCert(end_entity, server_name, now) ==
    /\ tls_handshake' =
         [called |-> TRUE, rs |-> registry_snapshot, end_entity |-> end_entity,
          server_name |-> server_name, now |-> now,
          result |-> verify_server_cert(registry_snapshot, end_entity,
                                        server_name, now)]
    /\ UNCHANGED <<rootVars, minterVars, serverVars, retrieveVars, swapVars, ckbtcVars, registry_snapshot>>

(***************************************************************************)
(* SNS swap: the ticketing protocol driven by payment_flow.rs              *)
(***************************************************************************)
MaxSwapCalls == 4

min_participant_icp_e8s == 1010000
max_participant_icp_e8s == 10000000
SubaccountLength == 32

AnonymousPrincipal == "anonymous"
Buyers == {"user0", "user1", AnonymousPrincipal}

\* vec![0; n]
Zeros(n) == [i \in 1..n |-> 0]

\* The amounts and subaccounts that test_new_sale_ticket passes.
TicketAmounts ==
    {min_participant_icp_e8s - 1, min_participant_icp_e8s,
     min_participant_icp_e8s + 1, max_participant_icp_e8s + 1}
TicketSubaccounts == {None, Some(Zeros(31)), Some(Zeros(32)), Some(Zeros(33))}

\* The sale canister after default_setup: lifecycle Pending, no ticket, the
\* id counter at 0.
SwapStateInit ==
    [lifecycle |-> "Pending", next_ticket_id |-> 0, tickets |-> {}]

NoSwapCall ==
    [method |-> "none", caller |-> "", amount |-> 0, subaccount |-> None,
     pre |-> SwapStateInit, result |-> <<>>]

OpenTicketsOf(state, buyer) == {t \in state.tickets : t.buyer = buyer}

TicketErr(type, existing, bounds) ==
    [ok |-> FALSE, type |-> type, existing_ticket |-> existing, bounds |-> bounds]

TicketOk(ticket) == [ok |-> TRUE, ticket |-> ticket]

\* Whether a request passes the checks that do not look at the open tickets.
TicketRequestError(state, caller, amount, subaccount) ==
    IF state.lifecycle # "Open" THEN "SaleNotOpen"
    ELSE IF caller = AnonymousPrincipal THEN "InvalidPrincipal"
    ELSE IF subaccount # None /\ Len(subaccount[1]) # SubaccountLength
    THEN "InvalidSubaccount"
    ELSE IF amount < min_participant_icp_e8s \/ amount > max_participant_icp_e8s
    THEN "InvalidUserAmount"
    ELSE "none"

NewSaleTicketConsumesIdOnReject(state, caller, amount, subaccount) ==
    LET e == TicketRequestError(state, caller, amount, subaccount)
        open == OpenTicketsOf(state, caller)
        ticket == [ticket_id |-> state.next_ticket_id, buyer |-> caller,
                   subaccount |-> subaccount, amount_icp_e8s |-> amount]
    IN IF e # "none"
       THEN [state |-> state,
             result |-> TicketErr(e, None,
                          IF e = "InvalidUserAmount"
                          THEN <<min_participant_icp_e8s, max_participant_icp_e8s>>
                          ELSE <<>>)]
       ELSE IF open # {}
       THEN [state |-> [state EXCEPT !.next_ticket_id = @ + 1],
             result |-> TicketErr("TicketExists", Some(CHOOSE t \in open : TRUE), <<>>)]
       ELSE [state |-> [state EXCEPT !.next_ticket_id = @ + 1,
                                     !.tickets = @ \cup {ticket}],
             result |-> TicketOk(ticket)]

NewSaleTicketReplacesOpenTicket(state, caller, amount, subaccount) ==
    LET e == TicketRequestError(state, caller, amount, subaccount)
        open == OpenTicketsOf(state, caller)
        ticket == [ticket_id |-> state.next_ticket_id, buyer |-> caller,
                   subaccount |-> subaccount, amount_icp_e8s |-> amount]
    IN IF e # "none"
       THEN [state |-> state,
             result |-> TicketErr(e, None,
                          IF e = "InvalidUserAmount"
                          THEN <<min_participant_icp_e8s, max_participant_icp_e8s>>
                          ELSE <<>>)]
       ELSE IF open # {}
       THEN [state |-> [state EXCEPT !.tickets = (@ \ open) \cup
                           {[ticket EXCEPT !.ticket_id = (CHOOSE t \in open : TRUE).ticket_id]}],
             result |-> TicketErr("TicketExists", Some(CHOOSE t \in open : TRUE), <<>>)]
       ELSE [state |-> [state EXCEPT !.next_ticket_id = @ + 1,
                                     !.tickets = @ \cup {ticket}],
             result |-> TicketOk(ticket)]

\* new_sale_ticket of the sale canister: a request that is rejected leaves
\* the state as it is; an accepted one opens the ticket with the next id.
new_sale_ticket(state, caller, amount, subaccount) ==
    LET e == TicketRequestError(state, caller, amount, subaccount)
        open == OpenTicketsOf(state, caller)
        ticket == [ticket_id |-> state.next_ticket_id, buyer |-> caller,
                   subaccount |-> subaccount, amount_icp_e8s |-> amount]
    IN IF e # "none"
       THEN [state |-> state,
             result |-> TicketErr(e, None,
                          IF e = "InvalidUserAmount"
                          THEN <<min_participant_icp_e8s, max_participant_icp_e8s>>
                          ELSE <<>>)]
       ELSE IF open # {}
       THEN [state |-> state,
             result |-> TicketErr("TicketExists", Some(CHOOSE t \in open : TRUE), <<>>)]
       ELSE [state |-> [state EXCEPT !.next_ticket_id = @ + 1,
                                     !.tickets = @ \cup {ticket}],
             result |-> TicketOk(ticket)]

\* get_open_ticket of the sale canister.
get_open_ticket(state, buyer) ==
    IF state.lifecycle # "Open" THEN TicketErr("SaleNotOpen", None, <<>>)
    ELSE LET open == OpenTicketsOf(state, buyer)
         IN [ok |-> TRUE,
             ticket |-> IF open = {} THEN None ELSE Some(CHOOSE t \in open : TRUE)]

\* notify_payment_failure of the sale canister: the open ticket of the sender
\* is removed and returned, or nothing is.
notify_payment_failure(state, sender) ==
    LET open == OpenTicketsOf(state, sender)
    IN [state |-> [state EXCEPT !.tickets = @ \ open],
        result |-> [ticket |-> IF open = {} THEN None
                                ELSE Some(CHOOSE t \in open : TRUE)]]

SwapCallSpent ==
    /\ swap_budget > 0
    /\ swap_budget' = swap_budget - 1

\* PaymentProtocolTestSetup::open_sale, lines 232-238.
OpenSale ==
    /\ swap.lifecycle = "Pending"
    /\ swap' = [swap EXCEPT !.lifecycle = "Open"]
    /\ swap_call' = [NoSwapCall EXCEPT !.method = "open_sale", !.pre = swap]
    /\ UNCHANGED <<rootVars, minterVars, serverVars, retrieveVars, ckbtcVars, tlsVars, swap_history,
                   swap_budget>>

\* PaymentProtocolTestSetup::new_sale_ticket, lines 274-287.
NewSaleTicket(buyer, amount, subaccount) ==
    /\ SwapCallSpent
    /\ LET r == new_sale_ticket(swap, buyer, amount, subaccount)
       IN /\ swap' = r.state
          /\ swap_call' = [method |-> "new_sale_ticket", caller |-> buyer,
                           amount |-> amount, subaccount |-> subaccount,
                           pre |-> swap, result |-> r.result]
          /\ swap_history' =
               IF r.result.ok
               THEN [swap_history EXCEPT !.issued = Append(@, r.result.ticket)]
               ELSE [swap_history EXCEPT !.rejected = @ \cup {r.result.type}]
    /\ UNCHANGED <<rootVars, minterVars, serverVars, retrieveVars, ckbtcVars, tlsVars>>

\* PaymentProtocolTestSetup::get_open_ticket, lines 261-272.
GetOpenTicket(buyer) ==
    /\ swap_call' = [NoSwapCall EXCEPT !.method = "get_open_ticket",
                                       !.caller = buyer, !.pre = swap,
                                       !.result = get_open_ticket(swap, buyer)]
    /\ UNCHANGED <<rootVars, minterVars, serverVars, retrieveVars, ckbtcVars, tlsVars, swap, swap_history,
                   swap_budget>>

\* PaymentProtocolTestSetup::notify_payment_failure, lines 288-290.
NotifyPaymentFailure(sender) ==
    /\ SwapCallSpent
    /\ LET r == notify_payment_failure(swap, sender)
       IN /\ swap' = r.state
          /\ swap_call' = [NoSwapCall EXCEPT !.method = "notify_payment_failure",
                                             !.caller = sender, !.pre = swap,
                                             !.result = r.result]
    /\ UNCHANGED <<rootVars, minterVars, serverVars, retrieveVars, ckbtcVars, tlsVars, swap_history>>

SwapIdle ==
    /\ swap = SwapStateInit
    /\ swap_call = NoSwapCall
    /\ swap_history = [issued |-> <<>>, rejected |-> {}]
    /\ swap_budget = 0

(***************************************************************************)
(* ckBTC minter with KYT, as driven by test_kyt.rs                         *)
(***************************************************************************)
MaxUtxos == 2
BTC_MIN_CONFIRMATIONS == 2

Utxos == 1..MaxUtxos
KytModes == {"AcceptAll", "RejectAll"}

\* The deployment when the test logic begins (lines 55-117): nothing paid to
\* the deposit address, nothing known to the minter, the KYT canister and the
\* ledger running, the ledger without transactions.
CkbtcMinterInit == [tainted |-> {}, checked |-> {}, minted |-> {}]
KytInit == [mode |-> "AcceptAll", running |-> TRUE]
CkbtcLedgerInit == [running |-> TRUE, transactions |-> {}]
NoUpdateBalanceCall ==
    [called |-> FALSE, kyt |-> KytInit, pre_ledger |-> CkbtcLedgerInit, ok |-> FALSE,
     error |-> "none", statuses |-> <<>>]

\* The UTXOs of the deposit address with enough confirmations that the
\* minter has neither found tainted nor minted.
PendingUtxos(minter, chain) ==
    {u \in Utxos : chain[u] >= BTC_MIN_CONFIRMATIONS} \ (minter.tainted \cup minter.minted)

RECURSIVE ProcessUtxos(_, _, _, _, _)
\* update_balance on the pending UTXOs in turn: a UTXO not yet screened goes
\* to the KYT canister (an unavailable KYT canister ends the call with
\* TemporarilyUnavailable); a rejected UTXO is Tainted and stays so; an
\* accepted one is Checked and then minted on the ledger, unless the ledger
\* is down.
ProcessUtxos(todo, minter, ledger, k, statuses) ==
    IF todo = <<>>
    THEN [minter |-> minter, ledger |-> ledger, ok |-> TRUE, error |-> "none",
          statuses |-> statuses]
    ELSE LET u == Head(todo) IN
         IF u \notin minter.checked /\ ~k.running
         THEN [minter |-> minter, ledger |-> ledger, ok |-> FALSE,
               error |-> "TemporarilyUnavailable", statuses |-> <<>>]
         ELSE IF u \notin minter.checked /\ k.mode = "RejectAll"
         THEN ProcessUtxos(Tail(todo), [minter EXCEPT !.tainted = @ \cup {u}], ledger,
                           k, Append(statuses, <<"Tainted", u>>))
         ELSE IF ~ledger.running
         THEN ProcessUtxos(Tail(todo), [minter EXCEPT !.checked = @ \cup {u}], ledger,
                           k, Append(statuses, <<"Checked", u>>))
         ELSE ProcessUtxos(Tail(todo),
                           [minter EXCEPT !.checked = @ \cup {u}, !.minted = @ \cup {u}],
                           [ledger EXCEPT !.transactions = @ \cup {[mint |-> u]}],
                           k, Append(statuses, <<"Minted", u>>))

\* update_balance of the ckBTC minter.
update_balance(minter, chain, ledger, k) ==
    LET pending == PendingUtxos(minter, chain)
    IN IF pending = {}
       THEN [minter |-> minter, ledger |-> ledger, ok |-> FALSE,
             error |-> "NoNewUtxos", statuses |-> <<>>]
       ELSE ProcessUtxos(SetToSortedSeq(pending), minter, ledger, k, <<>>)

PostUpgradeForgetsTainted(minter) == [minter EXCEPT !.tainted = {}]

\* The state of the minter after an upgrade is the state before it.
post_upgrade(minter) == minter

\* generate_blocks(.., 1, &btc_address1): a block pays the deposit address.
GenerateDepositBlock(u) ==
    /\ bitcoin[u] = 0
    /\ \A v \in Utxos : v < u => bitcoin[v] > 0
    /\ bitcoin' = [v \in Utxos |->
                     IF v = u THEN 1
                     ELSE IF bitcoin[v] \in 1..(BTC_MIN_CONFIRMATIONS - 1)
                     THEN bitcoin[v] + 1 ELSE bitcoin[v]]
    /\ UNCHANGED <<rootVars, minterVars, serverVars, retrieveVars, tlsVars, swapVars, ckbtc_minter,
                   kyt, ckbtc_ledger, ckbtc_call, ckbtc_history>>

\* generate_blocks(.., BTC_MIN_CONFIRMATIONS, &btc_address0): the deposits
\* made so far get enough confirmations.
GenerateConfirmations ==
    /\ \E u \in Utxos : bitcoin[u] \in 1..(BTC_MIN_CONFIRMATIONS - 1)
    /\ bitcoin' = [v \in Utxos |-> IF bitcoin[v] > 0 THEN BTC_MIN_CONFIRMATIONS ELSE 0]
    /\ UNCHANGED <<rootVars, minterVars, serverVars, retrieveVars, tlsVars, swapVars, ckbtc_minter,
                   kyt, ckbtc_ledger, ckbtc_call, ckbtc_history>>

\* upgrade_kyt(&mut kyt_canister, mode).
UpgradeKyt(mode) ==
    /\ kyt.mode # mode
    /\ kyt' = [kyt EXCEPT !.mode = mode]
    /\ UNCHANGED <<rootVars, minterVars, serverVars, retrieveVars, tlsVars, swapVars, bitcoin,
                   ckbtc_minter, ckbtc_ledger, ckbtc_call, ckbtc_history>>

\* stop_canister / start_canister of the KYT canister or of the ledger.
StopOrStartCanister(which) ==
    /\ IF which = "kyt"
       THEN kyt' = [kyt EXCEPT !.running = ~@] /\ UNCHANGED ckbtc_ledger
       ELSE ckbtc_ledger' = [ckbtc_ledger EXCEPT !.running = ~@] /\ UNCHANGED kyt
    /\ UNCHANGED <<rootVars, minterVars, serverVars, retrieveVars, tlsVars, swapVars, bitcoin,
                   ckbtc_minter, ckbtc_call, ckbtc_history>>

\* minter_agent.update_balance (lines 131-139 and after).
UpdateBalance ==
    LET r == update_balance(ckbtc_minter, bitcoin, ckbtc_ledger, kyt)
    IN /\ ckbtc_minter' = r.minter
       /\ ckbtc_ledger' = r.ledger
       /\ ckbtc_call' = [called |-> TRUE, kyt |-> kyt, pre_ledger |-> ckbtc_ledger,
                         ok |-> r.ok, error |-> r.error, statuses |-> r.statuses]
       /\ ckbtc_history' =
            [ckbtc_history EXCEPT
               !.reported_tainted =
                   @ \cup {r.statuses[i][2] : i \in {j \in 1..Len(r.statuses) :
                                                        r.statuses[j][1] = "Tainted"}}]
       /\ UNCHANGED <<rootVars, minterVars, serverVars, retrieveVars, tlsVars, swapVars, bitcoin, kyt>>

\* upgrade_canister(&mut minter_canister), line 148.
UpgradeCkbtcMinter ==
    /\ ckbtc_minter' = post_upgrade(ckbtc_minter)
    /\ ckbtc_history' =
         [ckbtc_history EXCEPT !.tainted_at_upgrade = @ \cup ckbtc_history.reported_tainted]
    /\ ckbtc_history' # ckbtc_history
    /\ UNCHANGED <<rootVars, minterVars, serverVars, retrieveVars, tlsVars, swapVars, bitcoin, kyt,
                   ckbtc_ledger, ckbtc_call>>

CkbtcInit ==
    /\ bitcoin = [u \in Utxos |-> 0]
    /\ ckbtc_minter = CkbtcMinterInit
    /\ kyt = KytInit
    /\ ckbtc_ledger = CkbtcLedgerInit
    /\ ckbtc_call = NoUpdateBalanceCall
    /\ ckbtc_history = [reported_tainted |-> {}, tainted_at_upgrade |-> {}]

TlsIdle ==
    /\ registry_snapshot = None
    /\ tls_handshake = NoHandshake

ComponentsIdle == TlsIdle /\ SwapIdle /\ CkbtcInit /\ RetrieveIdle

(***************************************************************************)
(* ckETH minter: initial states                                            *)
(***************************************************************************)
NoMinterBudget ==
    [scrap |-> 0, mint_fail |-> 0, upgrade |-> 0, withdraw |-> 0, finalize |-> 0]

\* The minter after init (lines 50-67), its withdrawal queue aside: nothing
\* scraped, nothing in flight.
MinterTasksInit ==
    /\ last_scraped_block_number = InitialBlock
    /\ last_observed_block_number = None
    /\ events_to_mint = {}
    /\ minted_events = {}
    /\ invalid_events = {}
    /\ active_tasks = {}
    /\ retrieve_eth_principals = {}
    /\ finalized_tx = {}
    /\ scrap = IdleScrap
    /\ mint = IdleMint
    /\ mint_timers = 0
    /\ withdraw_call = [w \in WithdrawSlots |-> IdleWithdrawCall]
    /\ finalize = IdleFinalize
    /\ ledger_mints = [s \in EventSources |-> 0]
    /\ ledger_burns = [c \in Callers |-> 0]
    /\ scraped_upto = InitialBlock
    /\ rescraped = FALSE
    /\ guard_refused = {}

\* The minter after init (lines 50-67): nothing scraped, nothing in flight.
MinterStateInit == MinterTasksInit /\ withdrawal_requests = <<>>

\* The minter in the specifications of the SNS Root canister: it takes no step.
MinterIdle ==
    /\ MinterStateInit
    /\ ethereum_contract_address = Some("contract")
    /\ event_log = <<InitEvent(InitialBlock)>>
    /\ sent_tx = {}
    /\ events_query = IdleEventsQuery(32)
    /\ minter_budget = NoMinterBudget

(***************************************************************************)
(* SNS Root canister: specifications                                       *)
(***************************************************************************)
NoRootBudget == [register |-> 0, set |-> 0, poll |-> 0, tick |-> 0, summary |-> 0]

\* No call of the SNS Root canister is in flight.
RootCallsIdle ==
    /\ register_call = [r \in RegisterSlots |-> IdleRegisterCall]
    /\ set_call = IdleSetCall
    /\ poll_call = [p \in PollSlots |-> IdlePollCall]
    /\ summary_call = IdleSummaryCall
    /\ periodic_run = IdlePeriodicRun
    /\ register_overlap = FALSE

\* build_test_sns_root_canister (lines 1195-1207): nothing tracked yet.
RootStateInit ==
    /\ dapp_canister_ids = <<>>
    /\ latest_ledger_archive_poll_timestamp_seconds = None
    /\ testflight \in BOOLEAN
    /\ RootCallsIdle
    /\ now_seconds = 0

\* SpecRoot: registration, controller hand-off and archive polls interleaved.
RootInit ==
    /\ RootStateInit
    /\ MinterIdle
    /\ ServerIdle
    /\ ComponentsIdle
    /\ testflight = FALSE
    /\ archive_canister_ids = <<>>
    /\ ledger_archives = <<>>
    /\ root_budget = [register |-> RootRegisterCalls, set |-> MaxSetCalls,
                      poll |-> MaxPolls, tick |-> MaxTicks, summary |-> 0]

RootRequestIds == DappIds \cup {GovernanceId, ArchiveA}

RootRegisterRequests ==
    {q \in RegisterRequests : SeqToSet(q) \subseteq RootRequestIds /\ Len(q) <= 2}

RootNext ==
    \/ \E r \in RegisterSlots, request \in RootRegisterRequests : RegisterStart(r, request)
    \/ \E r \in RegisterSlots, result \in StatusResults : RegisterStatusResponse(r, result)
    \/ \E r \in RegisterSlots, ok \in BOOLEAN : RegisterUpdateResponse(r, ok)
    \/ \E r \in RegisterSlots, result \in StatusResults : RegisterStatus2Response(r, result)
    \/ \E caller \in SetCallers, ids \in {None, Some(<<DappA>>)},
          cs \in SetRequestControllers : SetStart(caller, ids, cs)
    \/ \E result \in StatusResults : SetPreflightResponse(result)
    \/ \E ok \in BOOLEAN : SetUpdateResponse(ok)
    \/ \E overflow_checks \in BOOLEAN : RunPeriodicTasks(1, overflow_checks)
    \/ \E ok \in BOOLEAN : LedgerArchivesReply(1, ok)
    \/ PollResponse(1)
    \/ \E a \in ArchiveCandidates : LedgerSpawnArchive(a)
    \/ RootTick

SpecRoot == RootInit /\ [][RootNext]_vars

\* SpecRegister: register_dapp_canisters calls alone, over every canister id,
\* starting with or without a tracked archive canister.
RegisterInit ==
    /\ RootStateInit
    /\ MinterIdle
    /\ ServerIdle
    /\ ComponentsIdle
    /\ archive_canister_ids \in {<<>>, <<ArchiveA>>}
    /\ ledger_archives = archive_canister_ids
    /\ root_budget = [register |-> MaxRegisterCalls, set |-> 0, poll |-> 0, tick |-> 0,
                      summary |-> 0]

RegisterNext ==
    \/ \E r \in RegisterSlots, request \in RegisterRequests : RegisterStart(r, request)
    \/ \E r \in RegisterSlots, result \in StatusResults : RegisterStatusResponse(r, result)
    \/ \E r \in RegisterSlots, ok \in BOOLEAN : RegisterUpdateResponse(r, ok)
    \/ \E r \in RegisterSlots, result \in StatusResults : RegisterStatus2Response(r, result)

SpecRegister == RegisterInit /\ [][RegisterNext]_vars

\* SpecSet: set_dapp_controllers calls alone, over every caller and request,
\* starting from several lists of tracked dapps.
SetCalls == 2

SetInit ==
    /\ RootCallsIdle
    /\ MinterIdle
    /\ ServerIdle
    /\ ComponentsIdle
    /\ dapp_canister_ids \in {<<>>, <<DappA>>, <<DappA, DappB>>, <<DappB, DappA>>}
    /\ latest_ledger_archive_poll_timestamp_seconds = None
    /\ testflight = FALSE
    /\ now_seconds = 0
    /\ archive_canister_ids = <<>>
    /\ ledger_archives = <<>>
    /\ root_budget = [NoRootBudget EXCEPT !.set = SetCalls]

SetNext ==
    \/ \E caller \in SetCallers, ids \in SetRequestIds, cs \in SetRequestControllers :
          SetStart(caller, ids, cs)
    \/ \E result \in StatusResults : SetPreflightResponse(result)
    \/ \E ok \in BOOLEAN : SetUpdateResponse(ok)

SpecSet == SetInit /\ [][SetNext]_vars

\* SpecPoll: run_periodic_tasks over a day and a half, with archive polls in
\* flight together and a ledger that spawns archives.
PollRuns == 3
PollTicks == 3

PollInit ==
    /\ RootStateInit
    /\ MinterIdle
    /\ ServerIdle
    /\ ComponentsIdle
    /\ testflight = FALSE
    /\ archive_canister_ids = <<>>
    /\ ledger_archives \in {<<>>, <<ArchiveA>>}
    /\ root_budget = [NoRootBudget EXCEPT !.poll = PollRuns, !.tick = PollTicks]

PollNext ==
    \/ \E p \in PollSlots, overflow_checks \in BOOLEAN :
          RunPeriodicTasks(p, overflow_checks)
    \/ \E p \in PollSlots, ok \in BOOLEAN : LedgerArchivesReply(p, ok)
    \/ \E p \in PollSlots : PollResponse(p)
    \/ \E a \in ArchiveCandidates : LedgerSpawnArchive(a)
    \/ RootTick

SpecPoll == PollInit /\ [][PollNext]_vars

\* SpecShouldPoll: run_periodic_tasks applied to every pair of a latest poll
\* timestamp and a current timestamp of PollTimes, in both builds.
PollTimes == {0, 1, ONE_DAY_SECONDS - 1, ONE_DAY_SECONDS, ONE_DAY_SECONDS + 1,
              2 * ONE_DAY_SECONDS}

ShouldPollInit ==
    /\ RootCallsIdle
    /\ MinterIdle
    /\ ServerIdle
    /\ ComponentsIdle
    /\ dapp_canister_ids = <<>>
    /\ latest_ledger_archive_poll_timestamp_seconds \in
           {None} \cup {Some(t) : t \in PollTimes}
    /\ now_seconds \in PollTimes
    /\ testflight = FALSE
    /\ archive_canister_ids = <<>>
    /\ ledger_archives = <<>>
    /\ root_budget = [NoRootBudget EXCEPT !.poll = 1]

ShouldPollNext ==
    \/ \E overflow_checks \in BOOLEAN : RunPeriodicTasks(1, overflow_checks)
    \/ \E ok \in BOOLEAN : LedgerArchivesReply(1, ok)
    \/ PollResponse(1)

SpecShouldPoll == ShouldPollInit /\ [][ShouldPollNext]_vars

\* SpecSummary: get_sns_canisters_summary calls, with and without
\* update_canister_list, over several tracked lists.
SummaryCalls == 1

SummaryStatusResults ==
    {r \in StatusResults : ~r.ok \/ r.controllers = <<RootId>>}

SummaryInit ==
    /\ RootCallsIdle
    /\ MinterIdle
    /\ ServerIdle
    /\ ComponentsIdle
    /\ dapp_canister_ids \in {<<>>, <<DappA>>, <<DappB, DappA>>}
    /\ latest_ledger_archive_poll_timestamp_seconds \in {None, Some(0)}
    /\ testflight = FALSE
    /\ now_seconds = 0
    /\ archive_canister_ids \in {<<>>, <<ArchiveA>>}
    /\ ledger_archives \in {archive_canister_ids, <<ArchiveA>>}
    /\ root_budget = [NoRootBudget EXCEPT !.summary = SummaryCalls, !.tick = 1]

SummaryNext ==
    \/ \E update_canister_list \in BOOLEAN : SummaryStart(1, update_canister_list)
    \/ \E ok \in BOOLEAN : LedgerArchivesReply(1, ok)
    \/ PollResponse(1)
    \/ \E ok \in BOOLEAN : SummarySystemStatusResponse(ok)
    \/ \E result \in SummaryStatusResults : SummaryCanisterStatusResponse(result)
    \/ \E a \in ArchiveCandidates : LedgerSpawnArchive(a)
    \/ RootTick

SpecSummary == SummaryInit /\ [][SummaryNext]_vars

\* The SNS Root canister in the specifications of the minter: it takes no step.
RootIdle ==
    /\ RootStateInit
    /\ testflight = FALSE
    /\ archive_canister_ids = <<>>
    /\ ledger_archives = <<>>
    /\ root_budget = NoRootBudget

(***************************************************************************)
(* ckETH minter: specifications                                            *)
(***************************************************************************)
\* SpecDeposit: log scraping, minting and upgrades interleaved.
DepositInit ==
    /\ MinterStateInit
    /\ RootIdle
    /\ ServerIdle
    /\ ComponentsIdle
    /\ ethereum_contract_address \in {None, Some("contract")}
    /\ event_log = <<InitEvent(InitialBlock)>>
    /\ sent_tx = {}
    /\ events_query = IdleEventsQuery(32)
    /\ minter_budget = [NoMinterBudget EXCEPT !.scrap = MaxScrapRuns,
                                              !.mint_fail = MaxMintFailures,
                                              !.upgrade = MaxUpgrades]

DepositNext ==
    \/ ScrapStart
    \/ \E result \in {None} \cup {Some(h) : h \in Heights}, cleanup \in BOOLEAN :
          ScrapBlockResponse(result, cleanup)
    \/ ScrapLogsResponse
    \/ MintStart
    \/ \E result \in TransferResults : MintTransferResponse(result)
    \/ Upgrade

SpecDeposit == DepositInit /\ [][DepositNext]_vars

\* SpecWithdraw: withdraw_eth calls interleaved.
WithdrawInit ==
    /\ MinterStateInit
    /\ RootIdle
    /\ ServerIdle
    /\ ComponentsIdle
    /\ ethereum_contract_address = Some("contract")
    /\ event_log = <<InitEvent(InitialBlock)>>
    /\ sent_tx = {}
    /\ events_query = IdleEventsQuery(32)
    /\ minter_budget = [NoMinterBudget EXCEPT !.withdraw = MaxWithdrawCalls]

WithdrawNext ==
    \/ \E w \in WithdrawSlots, caller \in Callers, recipient \in Recipients,
          amount \in Amounts : WithdrawStart(w, caller, recipient, amount)
    \/ \E w \in WithdrawSlots, result \in TransferResults : WithdrawResponse(w, result)

SpecWithdraw == WithdrawInit /\ [][WithdrawNext]_vars

\* SpecFinalize: finalization passes over every table of sent transactions.
FinalizeInit ==
    /\ MinterStateInit
    /\ RootIdle
    /\ ServerIdle
    /\ ComponentsIdle
    /\ ethereum_contract_address = Some("contract")
    /\ event_log = <<InitEvent(InitialBlock)>>
    /\ sent_tx \in SUBSET SentUniverse
    /\ events_query = IdleEventsQuery(32)
    /\ minter_budget = [NoMinterBudget EXCEPT !.finalize = MaxFinalizePasses]

ReceiptResultLists ==
    UNION {[1..n -> ReceiptResults] : n \in 1..Cardinality(SentUniverse)}

FinalizeNext ==
    \/ FinalizeStart
    \/ \E result \in {None} \cup {Some(n) : n \in 0..MaxTxCount} :
          FinalizeCountResponse(result)
    \/ \E results \in ReceiptResultLists, cleanup \in BOOLEAN :
          FinalizeReceiptsResponse(results, cleanup)

SpecFinalize == FinalizeInit /\ [][FinalizeNext]_vars

\* SpecTasks: the timers of the three tasks firing at every await point.
MaxTaskTimers == 2

TasksInit ==
    /\ MinterStateInit
    /\ RootIdle
    /\ ServerIdle
    /\ ComponentsIdle
    /\ ethereum_contract_address = Some("contract")
    /\ event_log = <<InitEvent(InitialBlock)>>
    /\ sent_tx = {t \in SentUniverse : t.nonce = 0}
    /\ events_query = IdleEventsQuery(32)
    /\ minter_budget = [NoMinterBudget EXCEPT !.scrap = MaxTaskTimers,
                                              !.mint_fail = 1,
                                              !.finalize = MaxTaskTimers]

TasksNext ==
    \/ ScrapStart
    \/ \E result \in {None} \cup {Some(h) : h \in Heights}, cleanup \in BOOLEAN :
          ScrapBlockResponse(result, cleanup)
    \/ ScrapLogsResponse
    \/ MintStart
    \/ \E result \in TransferResults : MintTransferResponse(result)
    \/ FinalizeStart
    \/ \E result \in {None} \cup {Some(n) : n \in 0..MaxTxCount} :
          FinalizeCountResponse(result)
    \/ \E results \in ReceiptResultLists, cleanup \in BOOLEAN :
          FinalizeReceiptsResponse(results, cleanup)

SpecTasks == TasksInit /\ [][TasksNext]_vars

\* SpecRetrieve: rounds of process_retrieve_eth_requests over queues of
\* accepted withdrawal requests.
RetrieveInit ==
    /\ MinterTasksInit
    /\ RootIdle
    /\ ServerIdle
    /\ TlsIdle /\ SwapIdle /\ CkbtcInit
    /\ ethereum_contract_address = Some("contract")
    /\ \E n \in 0..MaxQueued :
          /\ withdrawal_requests = [i \in 1..n |-> QueuedRequest(i)]
          /\ event_log = <<InitEvent(InitialBlock)>> \o
                            [i \in 1..n |-> AcceptedEthWithdrawalRequest(i)]
    /\ sent_tx = {}
    /\ events_query = IdleEventsQuery(32)
    /\ minter_budget = NoMinterBudget
    /\ created_tx = {}
    /\ signed_tx = {}
    /\ next_transaction_nonce = 0
    /\ retrieve = IdleRetrieve
    /\ retrieve_round = NoRound
    /\ retrieve_budget = [rounds |-> MaxRetrieveRounds, faults |-> MaxRetrieveFaults]

\* The receipts of a batch: all mined, or none of them yet.
RetrieveReceiptResultLists ==
    UNION {{[i \in 1..n |-> "receipt"], [i \in 1..n |-> "none"]} :
              n \in 1..(MaxRetrieveRounds * MaxTxCount)}

RetrieveNext ==
    \/ RetrieveStart
    \/ \E result \in {None} \cup {Some(f) : f \in TransactionFees}, cleanup \in BOOLEAN :
          RetrieveFeeHistoryResponse(result, cleanup)
    \/ \E result \in {None} \cup {Some(n) : n \in 0..MaxTxCount} :
          RetrieveLatestCountResponse(result)
    \/ \E signed_ok \in SUBSET SeqToSet(retrieve.batch) : RetrieveSignResponse(signed_ok)
    \/ \E results \in [1..Len(retrieve.batch) -> SendRawTransactionResults] :
          RetrieveSendResponse(results)
    \/ \E result \in {None} \cup {Some(n) : n \in 0..MaxTxCount} :
          FinalizeCountResponse(result)
    \/ \E results \in RetrieveReceiptResultLists, cleanup \in BOOLEAN :
          FinalizeReceiptsResponse(results, cleanup)

SpecRetrieve == RetrieveInit /\ [][RetrieveNext]_vars

\* SpecEvents: get_events over event logs of several lengths.
EventsInit ==
    /\ MinterStateInit
    /\ RootIdle
    /\ ServerIdle
    /\ ComponentsIdle
    /\ ethereum_contract_address = Some("contract")
    /\ \E n \in LogLengths :
          event_log = [i \in 1..n |-> IF i = 1 THEN InitEvent(InitialBlock)
                                      ELSE SyncedToBlock(i)]
    /\ sent_tx = {}
    /\ \E b \in UsizeBits : events_query = IdleEventsQuery(b)
    /\ minter_budget = NoMinterBudget

EventsNext ==
    \E start \in QueryStarts, length \in QueryLengths : get_events(start, length)

SpecEvents == EventsInit /\ [][EventsNext]_vars

(***************************************************************************)
(* PocketIC server: specifications                                         *)
(***************************************************************************)
\* SpecBlob: blob store requests to a serving process.
BlobInit ==
    /\ MinterIdle
    /\ RootIdle
    /\ ComponentsIdle
    /\ port_file = [exists |-> TRUE, owner |-> 1, written |-> TRUE]
    /\ ready_file = [exists |-> TRUE, owner |-> 1, written |-> TRUE]
    /\ server = [p \in ServerProcs |->
                   IF p = 1 THEN [IdleServer EXCEPT !.pc = "serving"] ELSE IdleServer]
    /\ blob_store = [p \in ServerProcs |-> EmptyBlobStore]
    /\ last_request = [p \in ServerProcs |-> 0]
    /\ server_now = 0
    /\ http_exchange = NoExchange
    /\ posts = {}
    /\ server_budget = [requests |-> MaxRequests, ticks |-> 0]

BlobNext ==
    \/ \E p \in ServerProcs, e \in ContentEncodings, body \in BlobBodies :
          HttpPostBlob(p, e, body)
    \/ \E p \in ServerProcs, id \in BlobIdStrings : HttpGetBlob(p, id)
    \/ \E p \in ServerProcs, arg \in VerifySignatureArgs :
          HttpPostVerifySignature(p, arg)

SpecBlob == BlobInit /\ [][BlobNext]_vars

\* SpecServer: processes started with the same pid, with or without files
\* left behind in the temp dir, requests, the passing of time and shutdown.
ServerInit ==
    /\ MinterIdle
    /\ RootIdle
    /\ ComponentsIdle
    /\ port_file \in {AbsentFile, StaleFile}
    /\ ready_file \in {AbsentFile, StaleFile}
    /\ server = [p \in ServerProcs |-> IdleServer]
    /\ blob_store = [p \in ServerProcs |-> EmptyBlobStore]
    /\ last_request = [p \in ServerProcs |-> 0]
    /\ server_now = 0
    /\ http_exchange = NoExchange
    /\ posts = {}
    /\ server_budget = [requests |-> MaxRequests, ticks |-> MaxServerTicks]

ServerNext ==
    \/ \E p \in ServerProcs : ServerStartup(p)
    \/ \E p \in ServerProcs : ServerWritePort(p)
    \/ \E p \in ServerProcs : ServerCreateReady(p)
    \/ \E p \in ServerProcs : ServerShutdownCheck(p)
    \/ \E p \in ServerProcs : ServerRemovePortFile(p)
    \/ \E p \in ServerProcs : ServerTerminate(p)
    \/ \E d \in {1, TTL_SEC} : ServerTick(d)
    \/ \E p \in ServerProcs : HttpGetStatus(p)
    \/ \E p \in ServerProcs : HttpNoRoute(p)

SpecServer == ServerInit /\ [][ServerNext]_vars

(***************************************************************************)
(* Claims about the SNS Root canister                                      *)
(***************************************************************************)
\* C8: in every reachable state, dapp_canister_ids contains none of the
\* governance, ledger, swap and index canister ids and none of the ids in
\* archive_canister_ids.
C8_DappsDisjointFromSnsCanisters ==
    SeqToSet(dapp_canister_ids) \cap
        ({GovernanceId, LedgerId, SwapId, IndexId} \cup SeqToSet(archive_canister_ids)) = {}

\* The ids of a register request that are forbidden at the time of the call.
ForbiddenOf(c) == SeqToSet(c.request) \cap c.sns

C10_RegisterIdempotent ==
    /\ \A r \in RegisterSlots :
          LET c == register_call[r] IN
          (c.pushed \cup c.called) \cap SeqToSet(c.dapps) = {}
    /\ ~register_overlap => NoDuplicates(dapp_canister_ids)

\* C10 witness: a call has returned Ok for a request naming an id that was
\* registered before the call, and a request that repeats an id has returned.
C10_Witness ==
    /\ ~register_overlap
    /\ \E r \in RegisterSlots :
          /\ register_call[r].outcome = "ok"
          /\ SeqToSet(register_call[r].request) \cap SeqToSet(register_call[r].dapps) # {}
    /\ \E r \in RegisterSlots :
          /\ register_call[r].outcome = "ok"
          /\ ~NoDuplicates(register_call[r].request)
          /\ register_call[r].pushed # {}

(***************************************************************************)
(* Claims about the ckETH minter                                           *)
(***************************************************************************)
\* C1: while a withdraw_eth call of a principal is suspended on its
\* transfer_from call, no second call of that principal is suspended there
\* too: a call started meanwhile by the same principal ends at the guard,
\* has issued no ledger call and has recorded no withdrawal request.
C1_WithdrawGuardPerPrincipal ==
    /\ \A w1, w2 \in WithdrawSlots :
          (/\ w1 # w2
           /\ withdraw_call[w1].pc = "transfer_from"
           /\ withdraw_call[w2].pc = "transfer_from")
              => withdraw_call[w1].caller # withdraw_call[w2].caller
    /\ \A w \in WithdrawSlots :
          withdraw_call[w].busy_at_start =>
              /\ withdraw_call[w].outcome = "trap_guard"
              /\ ~withdraw_call[w].ledger_called
              /\ ~withdraw_call[w].recorded
    /\ \A p \in Callers :
          Cardinality({r \in DOMAIN withdrawal_requests :
                          withdrawal_requests[r].caller = p}) <= ledger_burns[p]

\* C1 witness: a call was rejected at the guard while another call of the same
\* principal is still suspended on the ledger.
C1_Witness ==
    \E w1, w2 \in WithdrawSlots :
        /\ withdraw_call[w1].pc = "transfer_from"
        /\ withdraw_call[w2].busy_at_start
        /\ withdraw_call[w2].caller = withdraw_call[w1].caller
        /\ withdraw_call[w2].outcome = "trap_guard"

\* The number of events of this type and source in the event log.
CountEvents(type, source) ==
    Cardinality({i \in DOMAIN event_log :
                    event_log[i].type = type /\ event_log[i].source = source})

\* C2: for every event source the ledger has made at most one mint transfer
\* and the event log holds at most one MintedCkEth event, and a minted event
\* is no longer among the events to mint.
C2_NoDoubleMint ==
    \A source \in EventSources :
        /\ ledger_mints[source] <= 1
        /\ CountEvents("MintedCkEth", source) <= 1
        /\ CountEvents("MintedCkEth", source) = ledger_mints[source]
        /\ source \in minted_events => source \notin events_to_mint

\* C2 witness: a batch of two deposits of which one transfer failed has been
\* retried: a transfer has failed, both deposits are minted, one is minted
\* while the other is still to mint in between.
C2_Witness ==
    /\ minter_budget.mint_fail < MaxMintFailures
    /\ mint.pc = "idle"
    /\ Cardinality(minted_events) = 2
    /\ \E i, j \in DOMAIN event_log :
          /\ i < j
          /\ event_log[i].type = "MintedCkEth"
          /\ event_log[j].type = "MintedCkEth"
          /\ event_log[i].source > event_log[j].source

\* The deposits whose sender is on the blocklist.
BlockedSources ==
    {l.source : l \in {x \in ChainLogs : x.kind = "deposit" /\ x.from_address \in Blocklist}}

\* C3: a deposit from a blocked address is never recorded as AcceptedDeposit,
\* is never minted, and once its block is scraped the log holds its
\* InvalidDeposit event, whose reason names the blocked address.
C3_BlockedDepositInvalid ==
    \A source \in BlockedSources :
        /\ CountEvents("AcceptedDeposit", source) = 0
        /\ CountEvents("MintedCkEth", source) = 0
        /\ ledger_mints[source] = 0
        /\ source \notin events_to_mint \cup minted_events
        /\ LogOf(source).block_number <= last_scraped_block_number
              => /\ source \in invalid_events
                 /\ \E i \in DOMAIN event_log :
                       event_log[i] = InvalidDeposit(source,
                           <<"blocked address ", LogOf(source).from_address>>)

\* C3 witness: the blocked deposit has been scraped, and mint_cketh has run
\* to its end afterwards.
C3_Witness ==
    /\ \E source \in BlockedSources : source \in invalid_events
    /\ minted_events # {}
    /\ mint.pc = "idle"
    /\ events_to_mint = {}

\* The receipts of a pass hold two receipts for one withdrawal id.
HasDuplicateReceipts(txs, results) ==
    \E i, j \in DOMAIN txs :
        /\ i # j
        /\ results[i] = "receipt" /\ results[j] = "receipt"
        /\ txs[i].withdrawal_id = txs[j].withdrawal_id

\* C4: when the receipts of a finalization pass hold two receipts for one
\* withdrawal id, or a receipt query of the pass failed, the pass has recorded
\* no finalized transaction and has left the sent transactions as they were.
C4_FinalizeAllOrNothing ==
    (/\ finalize.results # <<>>
     /\ \/ HasDuplicateReceipts(finalize.txs, finalize.results)
        \/ \E i \in DOMAIN finalize.results : finalize.results[i] = "err")
        => /\ sent_tx = finalize.sent_before
           /\ finalized_tx = finalize.finalized_before
           /\ finalize.outcome \in {"abort_duplicate", "abort_error"}

\* C4 witness: a pass over three sent transactions has ended on two receipts
\* for one withdrawal id, the third transaction having a receipt too.
C4_Witness ==
    /\ finalize.outcome = "abort_duplicate"
    /\ Len(finalize.txs) = 3
    /\ finalize.results[3] = "receipt"

CeilDiv(a, b) == (a + b - 1) \div b

\* C5: every call of scrap_eth_logs_between covers at most 1024 blocks, it
\* advances last_scraped_block_number by min(1024, t - current), and a run
\* that starts at f with a queried block number t > f ends with
\* last_scraped_block_number = t after ceil((t - f) / 1024) calls: 5 calls for
\* 5000 blocks.
C5_ScrapSpans ==
    /\ scrap.pc = "logs" =>
          /\ scrap.from = last_scraped_block_number
          /\ scrap.span_to - scrap.from <= 1024
          /\ scrap.span_to - scrap.from = MinNat(1024, scrap.target - scrap.from)
          /\ scrap.calls < CeilDiv(scrap.target - scrap.start, 1024)
    /\ scrap.calls > 0 =>
          last_scraped_block_number - scrap.prev = MinNat(1024, scrap.target - scrap.prev)
    /\ (scrap.outcome = "done" /\ scrap.target > scrap.start) =>
          /\ last_scraped_block_number = scrap.target
          /\ scrap.calls = CeilDiv(scrap.target - scrap.start, 1024)
          /\ scrap.target - scrap.start = 5000 => scrap.calls = 5

\* C5 witness: a run over 5000 blocks has ended.
C5_Witness ==
    /\ scrap.outcome = "done"
    /\ scrap.target - scrap.start = 5000
    /\ scrap.calls = 5

\* C6: get_events returns min(length, 100, max(0, n - start)) events, the log
\* entries from position start on in log order, and total_event_count = n.
C6_GetEventsPage ==
    events_query.called =>
        LET n == Len(event_log)
            q == events_query
            remaining == IF q.start.hi > 0 \/ q.start.lo >= n THEN 0 ELSE n - q.start.lo
            capped == IF q.length.hi > 0 \/ q.length.lo >= 100 THEN 100 ELSE q.length.lo
            count == MinNat(capped, remaining)
        IN /\ Len(q.events) = count
           /\ \A i \in 1..count : q.events[i] = map_event(event_log[q.start.lo + i])
           /\ q.total_event_count = n

\* C7: pre_upgrade appends SyncedToBlock with the current
\* last_scraped_block_number, the upgraded minter resumes from that block, and
\* no block is asked from the providers a second time.
C7_UpgradeResumesScraping ==
    /\ [](~rescraped)
    /\ [][minter_budget'.upgrade < minter_budget.upgrade =>
            /\ event_log' = Append(event_log, SyncedToBlock(last_scraped_block_number))
            /\ last_scraped_block_number' = last_scraped_block_number]_vars

\* C7 witness: the minter was upgraded after it had scraped, and it has
\* scraped further blocks since.
C7_Witness ==
    \E i \in DOMAIN event_log :
        /\ event_log[i].type = "SyncedToBlock"
        /\ event_log[i].block_number > InitialBlock
        /\ last_scraped_block_number > event_log[i].block_number
        /\ scraped_upto = last_scraped_block_number

(***************************************************************************)
(* Claims about set_dapp_controllers                                       *)
(***************************************************************************)
\* What the SNS Root canister tracks.
rootTracked == <<dapp_canister_ids, archive_canister_ids,
                 latest_ledger_archive_poll_timestamp_seconds, testflight>>

SetPanicsOfCaller == {"panic_unauthorized", "panic_set_all"}

\* C11: a set_dapp_controllers call whose caller is neither swap nor
\* governance, or that gives no canister id list while its caller is not
\* swap, ends in its first message execution with a panic, has issued no
\* management canister call, and the step that runs it changes nothing of what
\* root tracks.
C11_UnauthorizedSetChangesNothing ==
    /\ [](set_call.caller # 0 /\
            (set_call.caller \notin {SwapId, GovernanceId} \/
             (set_call.set_all /\ set_call.caller # SwapId))
          => /\ set_call.pc = "idle"
             /\ set_call.outcome \in SetPanicsOfCaller
             /\ set_call.status_calls = <<>>
             /\ set_call.update_calls = <<>>)
    /\ [][set_call' # set_call /\ set_call'.outcome \in SetPanicsOfCaller
          => UNCHANGED rootTracked]_vars

C11_Witness ==
    /\ set_call.outcome = "panic_set_all"
    /\ set_call.caller = GovernanceId
    /\ dapp_canister_ids # <<>>
    /\ root_budget.set = 0

\* C12: set_dapp_controllers issues an update_settings call only after the
\* pre-flight canister_status call of every targeted canister succeeded and
\* listed root among the controllers; a call with a failed pre-flight check
\* has aborted, has issued no update_settings call and has left
\* dapp_canister_ids as it was.
C12_PreflightBeforeUpdates ==
    /\ set_call.update_calls # <<>>
         => /\ Len(set_call.preflight) = Len(set_call.ids)
            /\ \A i \in DOMAIN set_call.preflight : set_call.preflight[i]
    /\ (\E i \in DOMAIN set_call.preflight : ~set_call.preflight[i])
         => /\ set_call.pc = "idle"
            /\ set_call.outcome \in {"panic_status", "panic_not_controllee"}
            /\ set_call.update_calls = <<>>
            /\ set_call.updated = <<>>
            /\ dapp_canister_ids = set_call.dapps_at_start

C12_Witness ==
    /\ set_call.outcome = "panic_not_controllee"
    /\ Len(set_call.preflight) = 2
    /\ set_call.preflight[1]
    /\ dapp_canister_ids # <<>>

SetReturned == set_call.pc = "idle" /\ set_call.outcome = "ok"

\* C13 as stated: after the call returns, every targeted canister is out of
\* dapp_canister_ids exactly when root is not in the requested controller list
\* and its update succeeded, a canister with a failed update is tracked, and
\* with root in the requested list dapp_canister_ids is unchanged.
C13_RemovedExactlyWhenRelinquished ==
    SetReturned =>
        /\ \A id \in SeqToSet(set_call.ids) :
              /\ ~Contains(dapp_canister_ids, id)
                   <=> (~set_call.still_controlled /\ Contains(set_call.updated, id))
              /\ Contains(set_call.failed_updates, id)
                   => Contains(dapp_canister_ids, id)
        /\ set_call.still_controlled => dapp_canister_ids = set_call.dapps_at_start

\* C13 amended: after the call returns, a canister that was tracked when the
\* call started is out of dapp_canister_ids exactly when root is not in the
\* requested controller list and an update_settings call for it succeeded;
\* every targeted id is reported in failed_updates unless all its updates
\* succeeded; with root in the requested list dapp_canister_ids is unchanged.
C13_RemovedWhenAnUpdateSucceeded ==
    SetReturned =>
        /\ \A id \in SeqToSet(set_call.dapps_at_start) :
              ~Contains(dapp_canister_ids, id)
                <=> (~set_call.still_controlled /\ Contains(set_call.updated, id))
        /\ SeqToSet(dapp_canister_ids) \subseteq SeqToSet(set_call.dapps_at_start)
        /\ Len(set_call.updated) + Len(set_call.failed_updates) = Len(set_call.ids)
        /\ SeqToSet(set_call.updated) \cup SeqToSet(set_call.failed_updates)
             = SeqToSet(set_call.ids)
        /\ set_call.still_controlled => dapp_canister_ids = set_call.dapps_at_start

C13_Witness ==
    /\ SetReturned
    /\ ~set_call.still_controlled
    /\ set_call.ids = <<DappA, DappB>>
    /\ set_call.updated = <<DappA>>
    /\ set_call.failed_updates = <<DappB>>
    /\ set_call.dapps_at_start = <<DappA, DappB>>
    /\ dapp_canister_ids = <<DappB>>

(***************************************************************************)
(* Claims about the archive polls and get_sns_canisters_summary            *)
(***************************************************************************)
PollUnsuccessful(p) ==
    \/ ~poll_call[p].ok
    \/ compare_archives_responses(archive_canister_ids, poll_call[p].archives) # {}

\* C14: a poll sets latest_ledger_archive_poll_timestamp_seconds to its
\* current timestamp when it starts; the step that handles a failed archives()
\* call, or a response that omits a tracked archive id, leaves
\* archive_canister_ids and everything else that root tracks unchanged, with
\* the timestamp no older than that of the poll.
C14_UnsuccessfulPollKeepsArchives ==
    /\ [](\A p \in PollSlots :
            poll_call[p].pc # "idle"
              => /\ latest_ledger_archive_poll_timestamp_seconds # None
                 /\ latest_ledger_archive_poll_timestamp_seconds[1] >= poll_call[p].ts)
    /\ [][\A p \in PollSlots :
            /\ poll_call[p].pc = "idle" /\ poll_call'[p].pc = "calling"
                 => /\ latest_ledger_archive_poll_timestamp_seconds' = Some(now_seconds)
                    /\ poll_call'[p].ts = now_seconds
            /\ poll_call[p].pc = "replied" /\ poll_call'[p].pc = "idle"
                 /\ PollUnsuccessful(p)
                 => /\ UNCHANGED rootTracked
                    /\ poll_call'[p].outcome \in {"call_failed", "defects"}]_vars

C14_Witness ==
    \E p \in PollSlots :
        /\ poll_call[p].pc = "idle"
        /\ poll_call[p].outcome = "defects"
        /\ archive_canister_ids # <<>>
        /\ latest_ledger_archive_poll_timestamp_seconds # None

SummaryStarted == summary_call.pc # "idle" \/ summary_call.outcome = "ok"
SummaryReturned == summary_call.pc = "idle" /\ summary_call.outcome = "ok"

SummaryIds(summaries) == [i \in DOMAIN summaries |-> summaries[i].canister_id[1]]

\* C16: a get_sns_canisters_summary call without update_canister_list makes
\* no archives() call and leaves archive_canister_ids and the poll timestamp
\* as they were; a call with update_canister_list makes one archives() call
\* before any status call, whatever the time since the last poll, sets the
\* poll timestamp to its own timestamp, and the archives it returns are those
\* of the tracked list after that poll.
C16_SummaryRefreshesArchives ==
    /\ SummaryStarted /\ ~summary_call.update
         => /\ summary_call.ledger_calls = 0
            /\ \A p \in PollSlots : poll_call[p].origin # "summary"
            /\ archive_canister_ids = summary_call.archives_at_start
            /\ latest_ledger_archive_poll_timestamp_seconds = summary_call.latest_at_start
    /\ SummaryStarted /\ summary_call.update
         => /\ summary_call.ledger_calls = 1
            /\ latest_ledger_archive_poll_timestamp_seconds = Some(summary_call.started_at)
            /\ summary_call.pc = "polling"
                 => summary_call.system = <<>> /\ summary_call.status_results = <<>>
    /\ SummaryReturned
         => SummaryIds(summary_call.archive_summaries) = archive_canister_ids

C16_Witness ==
    /\ SummaryReturned
    /\ summary_call.update
    /\ summary_call.latest_at_start = Some(0)
    /\ summary_call.started_at < ONE_DAY_SECONDS
    /\ summary_call.archives_at_start = <<>>
    /\ SummaryIds(summary_call.archive_summaries) = <<ArchiveA>>

IsGetBlob == http_exchange.method = "GET /blobstore/:id"

\* C18: a GET /blobstore/:id for an id that a POST /blobstore to the same
\* server returned is answered with status 200 and the bytes of that POST, and
\* with Content-Encoding: gzip exactly when that POST carried it.
C18_BlobRoundTrip ==
    IsGetBlob =>
        \A post \in posts :
            post.server = http_exchange.server /\ post.id = http_exchange.id
              => /\ http_exchange.status = StatusOK
                 /\ http_exchange.body = post.data
                 /\ http_exchange.content_encoding =
                      IF post.gzip THEN Some("gzip") ELSE None

\* An id of 64 hex digits.
WellFormedBlobId(id) ==
    /\ Len(id) = 2 * DigestLength
    /\ \A i \in DOMAIN id :
          id[i] \in SeqToSet(HexLower) \cup SeqToSet(HexUpper)

\* The digests of the blobs posted to a server.
PostedDigests(p) == {Sha256(post.data) : post \in {q \in posts : q.server = p}}

\* C19: GET /blobstore/:id is answered with 400 for every id that is not 64
\* hex digits, with 404 for a well-formed id whose digest was never stored,
\* never with another status than 200, 400 or 404 and never with 200 for an id
\* that was not stored; the step leaves the blob store unchanged.
C19_MalformedBlobIdRejected ==
    /\ [](IsGetBlob =>
            /\ http_exchange.status \in {StatusOK, StatusBadRequest, StatusNotFound}
            /\ ~WellFormedBlobId(http_exchange.id)
                 => http_exchange.status = StatusBadRequest
            /\ WellFormedBlobId(http_exchange.id)
                 => IF hex_decode(http_exchange.id).bytes
                         \in PostedDigests(http_exchange.server)
                    THEN http_exchange.status = StatusOK
                    ELSE http_exchange.status = StatusNotFound)
    /\ [][IsGetBlob' /\ server_budget' # server_budget
            => blob_store' = blob_store]_vars

C19_Witness ==
    /\ IsGetBlob
    /\ http_exchange.status = StatusBadRequest
    /\ Len(http_exchange.id) = 2 * DigestLength - 2
    /\ hex_decode(http_exchange.id).ok
    /\ posts # {}

HoldsPortFile(p) == server[p].pc \in {"created", "bound", "serving", "ready_removed"}

\* C20 as stated: a process that failed to create the port file or the ready
\* file has exited and has served no request, and at most one process serves.
C20_FileCollisionExits ==
    /\ \A p \in ServerProcs :
          server[p].port_error \/ server[p].ready_error
            => server[p].pc = "exited" /\ ~server[p].served
    /\ Cardinality({p \in ServerProcs : Accepting(p)}) <= 1

\* C20 amended: a process that failed to create the port file has exited and
\* has served no request; a process that failed to create the ready file goes
\* on to serve; at most one process at a time has created the port file and
\* not yet removed it, and that process is the one named in the file.
C20_PortFileCollisionExits ==
    /\ \A p \in ServerProcs :
          /\ server[p].port_error
               => server[p].pc = "exited" /\ ~server[p].served /\ ~server[p].ready_error
          /\ server[p].ready_error
               => server[p].pc \in {"serving", "ready_removed", "shutting_down",
                                    "terminated"}
          /\ HoldsPortFile(p) => port_file.exists /\ port_file.owner = p
    /\ Cardinality({p \in ServerProcs : HoldsPortFile(p)}) <= 1

C20_Witness ==
    \E p, q \in ServerProcs :
        /\ server[p].pc = "exited"
        /\ server[p].port_error
        /\ server[q].pc = "serving"
        /\ server[q].served
        /\ port_file.owner = q

(***************************************************************************)
(* PocketIC server: time to live                                           *)
(***************************************************************************)
\* The tokio runtime keeps polling the shutdown_signal future and the server
\* future (lines 157-172): a pass of the loop that is due, the removal of the
\* port file and the end of the graceful shutdown are not postponed forever.
ServerFairness ==
    \A p \in ServerProcs :
        /\ WF_vars(ServerShutdownCheck(p))
        /\ WF_vars(ServerRemovePortFile(p))
        /\ WF_vars(ServerTerminate(p))

\* SpecServerLive: the processes of one test run, started with no file of
\* an earlier run left behind, under the fairness of the runtime.
ServerLiveInit == ServerInit /\ port_file = AbsentFile /\ ready_file = AbsentFile

SpecServerLive == ServerLiveInit /\ [][ServerNext]_vars /\ ServerFairness

ServerElapsed(p) == server_now - last_request[p]

\* A process leaves the loop of shutdown_signal only with more than TTL_SEC
\* seconds since the last bump of last_request.
C21_ShutdownOnlyAfterTtl ==
    [][\A p \in ServerProcs :
          (server[p].pc = "serving" /\ server'[p].pc # "serving")
              => ServerElapsed(p) > TTL_SEC]_vars

\* A pass of the loop that finds the TTL exceeded does not go back to sleep,
\* and the steps of the shutdown remove the ready file and then the port file.
C21_ExceededPassShutsDown ==
    [][\A p \in ServerProcs :
          /\ (server[p].pc = "serving" /\ ServerElapsed(p) > TTL_SEC
                /\ server'[p].pc = "serving")
               => server'[p].next_check = server[p].next_check
          /\ (server[p].pc = "serving" /\ server'[p].pc = "ready_removed")
               => ~ready_file'.exists
          /\ (server[p].pc = "ready_removed" /\ server'[p].pc = "shutting_down")
               => ~port_file'.exists]_vars

\* With no request to come, a pass of the loop that is due with the TTL
\* exceeded leads to the end of the process.
C21_ShutsDownWhenIdle ==
    \A p \in ServerProcs :
        (/\ server[p].pc = "serving"
         /\ server_budget.requests = 0
         /\ server_now >= server[p].next_check
         /\ ServerElapsed(p) > TTL_SEC) ~> (server[p].pc = "terminated")

\* C21: the server begins to shut down only after more than TTL_SEC (60)
\* seconds without a bump of last_request, so it never shuts down while
\* requests keep arriving at least every 60 seconds; when requests stop, the
\* first pass of the one-second loop that finds the TTL exceeded removes the
\* ready file and the port file and the process shuts down.
C21_TtlShutdown ==
    /\ C21_ShutdownOnlyAfterTtl
    /\ C21_ExceededPassShutsDown
    /\ C21_ShutsDownWhenIdle

\* A process that served a request, slept through passes of the loop that
\* found the TTL not exceeded, and shut down once it was.
C21_Witness ==
    \E p \in ServerProcs :
        /\ server[p].pc = "terminated"
        /\ server[p].served
        /\ server[p].next_check > 0
        /\ ~port_file.exists
        /\ ~ready_file.exists

(***************************************************************************)
(* PocketIC server: POST /verify_signature                                 *)
(***************************************************************************)
IsVerifySignature == http_exchange.method = "POST /verify_signature"

\* http::StatusCode::is_client_error: the 4xx class.
IsClientError(status) == 400 <= status /\ status <= 499

\* C22: POST /verify_signature answers 200 exactly when both keys parse and
\* the signature verifies; a malformed public key or root public key yields a
\* client-error status; an invalid signature under well-formed keys yields a
\* failure status that is not a client-error status and differs from the
\* status of malformed input.
C22_VerifySignatureStatus ==
    IsVerifySignature =>
        LET arg == http_exchange.request[1]
            status == http_exchange.status
        IN /\ status = StatusOK
                <=> (arg.pubkey_der_ok /\ arg.root_pubkey_der_ok /\ arg.sig_verifies)
           /\ (~arg.pubkey_der_ok \/ ~arg.root_pubkey_der_ok) => IsClientError(status)
           /\ (arg.pubkey_der_ok /\ arg.root_pubkey_der_ok /\ ~arg.sig_verifies)
                => /\ status # StatusOK
                   /\ ~IsClientError(status)
                   /\ status # StatusBadRequest

\* C22 as amended: the status of an invalid signature is 406, which differs
\* from 200 and from the 400 of malformed input and is itself in the
\* client-error class.
C22_VerifySignatureStatusDistinct ==
    IsVerifySignature =>
        LET arg == http_exchange.request[1]
            status == http_exchange.status
        IN /\ status = StatusOK
                <=> (arg.pubkey_der_ok /\ arg.root_pubkey_der_ok /\ arg.sig_verifies)
           /\ (~arg.pubkey_der_ok \/ ~arg.root_pubkey_der_ok)
                => status = StatusBadRequest
           /\ (arg.pubkey_der_ok /\ arg.root_pubkey_der_ok /\ ~arg.sig_verifies)
                => /\ status = StatusNotAcceptable
                   /\ status \notin {StatusOK, StatusBadRequest}
                   /\ IsClientError(status)

\* An invalid signature under two well-formed keys has been answered.
C22_Witness ==
    /\ IsVerifySignature
    /\ http_exchange.request[1] =
         [pubkey_der_ok |-> TRUE, root_pubkey_der_ok |-> TRUE, sig_verifies |-> FALSE]
    /\ http_exchange.status = StatusNotAcceptable

(***************************************************************************)
(* Boundary node: specification of the TLS verifier                        *)
(***************************************************************************)
\* SpecTls: handshakes against the snapshots that get published, starting
\* with none.
TlsInit ==
    /\ MinterIdle
    /\ RootIdle
    /\ ServerIdle
    /\ SwapIdle
    /\ CkbtcInit
    /\ TlsIdle
    /\ RetrieveIdle

TlsNext ==
    \/ \E rs \in RegistrySnapshots : PublishSnapshot(rs)
    \/ \E end_entity \in EndEntityCertificates, server_name \in ServerNames,
          now \in TlsTimes : VerifyServerCert(end_entity, server_name, now)

SpecTls == TlsInit /\ [][TlsNext]_vars

TlsFound ==
    /\ tls_handshake.called
    /\ tls_handshake.rs # None
    /\ tls_handshake.server_name.type = "DnsName"
    /\ tls_handshake.server_name.name \in DOMAIN tls_handshake.rs[1]

\* C23: verify_server_cert reports the handshake as verified only if a
\* snapshot is published, the server name is a DNS name found in it, the
\* presented certificate parses, its signature verifies under the public key
\* of that node's registry certificate, and the time lies inside the
\* certificate's validity interval; a well-formed certificate not signed by
\* the registry-recorded key fails with BadSignature, time-valid or not.
C23_VerifiedOnlyByRegistryKey ==
    LET h == tls_handshake IN
    /\ (h.called /\ h.result.ok) =>
          /\ TlsFound
          /\ h.end_entity.der_ok
          /\ h.end_entity.signed_by = h.rs[1][h.server_name.name]
          /\ h.end_entity.not_before <= h.now
          /\ h.now <= h.end_entity.not_after
    /\ (TlsFound /\ h.end_entity.der_ok
          /\ h.end_entity.signed_by # h.rs[1][h.server_name.name]) =>
          h.result = RustlsError("InvalidCertificate", <<"BadSignature">>)

\* A well-formed, currently valid certificate signed by another key than the
\* registry's has been refused.
C23_Witness ==
    /\ TlsFound
    /\ tls_handshake.end_entity.der_ok
    /\ tls_handshake.end_entity.signed_by # tls_handshake.rs[1][tls_handshake.server_name.name]
    /\ tls_handshake.end_entity.not_before <= tls_handshake.now
    /\ tls_handshake.now <= tls_handshake.end_entity.not_after
    /\ ~tls_handshake.result.ok

TlsNoSnapshot == tls_handshake.called /\ tls_handshake.rs = None

TlsNameMissing ==
    /\ tls_handshake.called
    /\ tls_handshake.rs # None
    /\ tls_handshake.server_name.type = "DnsName"
    /\ tls_handshake.server_name.name \notin DOMAIN tls_handshake.rs[1]

\* C24: verify_server_cert fails with the NoRoutingTable error kind when no
\* snapshot has been published and with the distinct NodeNotFound error kind
\* when the DNS server name is not a node of the published snapshot; the two
\* failures differ in their kind.
C24_DistinctErrorKinds ==
    /\ TlsNoSnapshot => (~tls_handshake.result.ok
                           /\ tls_handshake.result.kind # NodeNotFoundError("node-a").kind)
    /\ TlsNameMissing => (~tls_handshake.result.ok
                            /\ tls_handshake.result.kind # NoRoutingTableError.kind)

\* C24 as amended: both failures are rustls errors of the kind General; they
\* differ in their message, which names the node in the second case.
C24_SameKindDistinctMessages ==
    /\ TlsNoSnapshot =>
          /\ tls_handshake.result = RustlsError("General", <<"no routing table published">>)
    /\ TlsNameMissing =>
          /\ ~tls_handshake.result.ok
          /\ tls_handshake.result.kind = "General"
          /\ tls_handshake.result.detail =
               <<"Node '", tls_handshake.server_name.name, "' not found in a routing table">>
          /\ tls_handshake.result.detail # <<"no routing table published">>

\* A handshake for a DNS name that the published snapshot does not hold.
C24_Witness ==
    /\ TlsNameMissing
    /\ tls_handshake.result.kind = "General"

(***************************************************************************)
(* SNS swap: specification of the ticketing protocol                       *)
(***************************************************************************)
\* SpecSwap: the calls of test_new_sale_ticket in any order, by the two test
\* users and the anonymous principal, before and after the sale is opened.
SwapInit ==
    /\ MinterIdle
    /\ RootIdle
    /\ ServerIdle
    /\ TlsIdle
    /\ CkbtcInit
    /\ RetrieveIdle
    /\ swap = SwapStateInit
    /\ swap_call = NoSwapCall
    /\ swap_history = [issued |-> <<>>, rejected |-> {}]
    /\ swap_budget = MaxSwapCalls

SwapNext ==
    \/ OpenSale
    \/ \E buyer \in Buyers, amount \in TicketAmounts, subaccount \in TicketSubaccounts :
          NewSaleTicket(buyer, amount, subaccount)
    \/ \E buyer \in Buyers : GetOpenTicket(buyer)
    \/ \E sender \in Buyers : NotifyPaymentFailure(sender)

SpecSwap == SwapInit /\ [][SwapNext]_vars

\* C25: the ticket ids of the successful new_sale_ticket calls are a global
\* counter shared by all buyers that starts at 0 and grows by one in call
\* order; a rejected request consumes no id, so there is no gap and the
\* first two tickets have the ids 0 and 1.
C25_TicketIdsCountFromZero ==
    /\ \A i \in 1..Len(swap_history.issued) : swap_history.issued[i].ticket_id = i - 1
    /\ (swap_call.method = "new_sale_ticket" /\ ~swap_call.result.ok)
          => swap.next_ticket_id = swap_call.pre.next_ticket_id

\* Two buyers got tickets, and requests were rejected for every reason
\* before the second ticket.
C25_Witness ==
    /\ Len(swap_history.issued) >= 2
    /\ swap_history.issued[1].buyer # swap_history.issued[2].buyer
    /\ swap_history.issued[2].ticket_id = 1
    /\ {"SaleNotOpen", "TicketExists"} \subseteq swap_history.rejected
    /\ swap_call.method = "new_sale_ticket"
    /\ swap_call.result.ok

SwapSecondRequest ==
    /\ swap_call.method = "new_sale_ticket"
    /\ OpenTicketsOf(swap_call.pre, swap_call.caller) # {}

\* C26: a buyer holds at most one open ticket at any time; new_sale_ticket
\* for a buyer with an open ticket fails, with a ticket-exists error carrying
\* the open ticket when the request is otherwise acceptable, and leaves the
\* open ticket as it was.
C26_OneOpenTicketPerBuyer ==
    /\ \A t1, t2 \in swap.tickets : t1.buyer = t2.buyer => t1 = t2
    /\ SwapSecondRequest =>
          /\ ~swap_call.result.ok
          /\ swap.tickets = swap_call.pre.tickets
          /\ TicketRequestError(swap_call.pre, swap_call.caller, swap_call.amount,
                                swap_call.subaccount) = "none"
               => /\ swap_call.result.type = "TicketExists"
                  /\ swap_call.result.existing_ticket # None
                  /\ swap_call.result.existing_ticket[1] \in
                       OpenTicketsOf(swap_call.pre, swap_call.caller)

\* A buyer with an open ticket asked for another one with another amount.
C26_Witness ==
    /\ SwapSecondRequest
    /\ swap_call.result.type = "TicketExists"
    /\ swap_call.result.existing_ticket[1].amount_icp_e8s # swap_call.amount

(***************************************************************************)
(* ckBTC minter with KYT: specification                                    *)
(***************************************************************************)
\* SpecKyt: the steps of test_kyt in any order.
KytSpecInit ==
    /\ MinterIdle
    /\ RootIdle
    /\ ServerIdle
    /\ TlsIdle
    /\ SwapIdle
    /\ CkbtcInit
    /\ RetrieveIdle

KytNext ==
    \/ \E u \in Utxos : GenerateDepositBlock(u)
    \/ GenerateConfirmations
    \/ \E mode \in KytModes : UpgradeKyt(mode)
    \/ \E which \in {"kyt", "ledger"} : StopOrStartCanister(which)
    \/ UpdateBalance
    \/ UpgradeCkbtcMinter

SpecKyt == KytSpecInit /\ [][KytNext]_vars

MintedUtxos(ledger) == {t.mint : t \in ledger.transactions}

\* C27: an update_balance call made while the KYT canister is in reject-all
\* mode reports a sufficiently confirmed, unscreened deposit as Tainted and
\* creates no ledger mint transaction for it; a UTXO reported as Tainted is
\* still tainted, and unminted, after upgrades of the minter.
C27_TaintedNeverMinted ==
    /\ (ckbtc_call.called /\ ckbtc_call.ok /\ ckbtc_call.kyt.mode = "RejectAll") =>
          \A i \in 1..Len(ckbtc_call.statuses) :
              \/ /\ ckbtc_call.statuses[i][1] = "Tainted"
                 /\ ckbtc_call.statuses[i][2] \notin MintedUtxos(ckbtc_ledger)
              \/ ckbtc_call.statuses[i][2] \in ckbtc_minter.checked
    /\ \A u \in ckbtc_history.reported_tainted :
          /\ u \in ckbtc_minter.tainted
          /\ u \notin MintedUtxos(ckbtc_ledger)
          /\ u \notin ckbtc_minter.minted

\* A UTXO was reported Tainted, the minter was upgraded, the KYT canister
\* went back to accept-all and a later update_balance minted another UTXO.
C27_Witness ==
    /\ ckbtc_history.tainted_at_upgrade # {}
    /\ ckbtc_call.called
    /\ ckbtc_call.ok
    /\ ckbtc_call.kyt.mode = "AcceptAll"
    /\ \E i \in 1..Len(ckbtc_call.statuses) : ckbtc_call.statuses[i][1] = "Minted"

(***************************************************************************)
(* C29: timer guards of the ckETH minter                                   *)
(***************************************************************************)
\* The state of the minter that a task may change, the timers aside.
minterTaskState ==
    <<ethereum_contract_address, last_scraped_block_number,
      last_observed_block_number, events_to_mint, minted_events, invalid_events,
      active_tasks, retrieve_eth_principals, withdrawal_requests, sent_tx,
      finalized_tx, event_log, scrap, mint, finalize, ledger_mints>>

ScrapTimerFired == minter_budget'.scrap = minter_budget.scrap - 1
MintTimerFired == mint_timers' = mint_timers - 1
RetrieveTimerFired == minter_budget'.finalize = minter_budget.finalize - 1

\* An invocation past its guard holds the guard of its task.
TasksPastGuardHoldGuard ==
    /\ scrap.pc # "idle" => "ScrapEthLogs" \in active_tasks
    /\ mint.pc # "idle" => "MintCkEth" \in active_tasks
    /\ finalize.pc # "idle" => "RetrieveEth" \in active_tasks

\* A timer firing while the guard of its task is held changes nothing in the
\* minter: no second invocation gets past the guard.
GuardHeldTimerReturns ==
    /\ ScrapTimerFired /\ "ScrapEthLogs" \in active_tasks => UNCHANGED minterTaskState
    /\ MintTimerFired /\ "MintCkEth" \in active_tasks => UNCHANGED minterTaskState
    /\ RetrieveTimerFired /\ "RetrieveEth" \in active_tasks => UNCHANGED minterTaskState

\* C29: for each task type at most one invocation is past its guard at any
\* time, whatever the interleaving of timers at await points: an invocation
\* past its guard holds the guard, and a timer that fires while the guard is
\* held returns without changing the state of the minter.
C29_OneInvocationPerTask == [] TasksPastGuardHoldGuard /\ [][GuardHeldTimerReturns]_vars

\* A timer of each task has fired while the guard of the task was held.
C29_Witness == guard_refused = {"ScrapEthLogs", "MintCkEth", "RetrieveEth"}

(***************************************************************************)
(* C30: withdraw_eth records a request exactly on a burn                   *)
(***************************************************************************)
\* Call w got the block index of its burn from the ledger in this step.
WithdrawBurned(w) ==
    /\ withdraw_call[w].pc = "transfer_from"
    /\ withdraw_call'[w].pc = "idle"
    /\ withdraw_call'[w].outcome = "ok"

\* The request of caller `caller` is recorded in this step, under one burn
\* index in the queue and in the event log.
WithdrawalRecorded(caller) ==
    \E ledger_burn_index \in 1..MaxWithdrawCalls :
        /\ withdrawal_requests' =
              Append(withdrawal_requests,
                     [caller |-> caller, ledger_burn_index |-> ledger_burn_index])
        /\ event_log' =
              Append(event_log, AcceptedEthWithdrawalRequest(ledger_burn_index))

\* Call w returns AmountTooLow in this step.
WithdrawAmountTooLow(w) ==
    /\ withdraw_call[w].pc = "idle"
    /\ withdraw_call'[w] # withdraw_call[w]
    /\ withdraw_call'[w].outcome = "AmountTooLow"

WithdrawRecordsExactlyOnBurn ==
    /\ \A w \in WithdrawSlots :
          WithdrawBurned(w) => WithdrawalRecorded(withdraw_call[w].caller)
    /\ (\A w \in WithdrawSlots : ~WithdrawBurned(w))
          => UNCHANGED <<withdrawal_requests, event_log>>
    /\ \A w \in WithdrawSlots :
          WithdrawAmountTooLow(w) => UNCHANGED ledger_burns

\* C30: withdraw_eth records a withdrawal request (the AcceptedEthWithdrawalRequest
\* event and the queue entry, under the ledger burn index) exactly when
\* transfer_from returned a block index; in every other outcome (AmountTooLow,
\* returned without a call to the ledger, a rejection by the ledger, a failed
\* call) the withdrawal queue and the event log are unchanged.
C30_RecordedExactlyOnBurn == [][WithdrawRecordsExactlyOnBurn]_vars

\* One request was recorded, one call returned AmountTooLow and one call was
\* rejected by the ledger.
C30_Witness ==
    /\ Len(withdrawal_requests) = 1
    /\ Len(event_log) = 2
    /\ withdraw_call[1].outcome = "AmountTooLow"
    /\ withdraw_call[2].outcome = "ledger_error"

(***************************************************************************)
(* C31: create_transactions_batch                                          *)
(***************************************************************************)
\* The requests that the creation of the last round took from the queue.
RoundTaken ==
    SubSeq(retrieve_round.queue_before, 1,
           Len(retrieve_round.created) + Len(retrieve_round.rescheduled))

RoundCovered(request) == WithdrawalAmountOf(request.ledger_burn_index) >= retrieve.price

\* C31: create_transactions_batch takes at most 5 queued requests per round,
\* the first of the queue; the k-th transaction it creates is for the k-th
\* taken request whose amount covers the maximum fee and has the k-th nonce
\* from the next nonce on, so the nonces are distinct and consecutive; a
\* request whose amount does not cover the fee consumes no nonce and is moved
\* to the back of the queue.
C31_CreateBatchNonces ==
    retrieve_round.queue_before # <<>> =>
        LET covered == SelectSeq(RoundTaken, RoundCovered)
            uncovered == SelectSeq(RoundTaken, LAMBDA q : ~RoundCovered(q))
        IN /\ Len(RoundTaken) <= 5
           /\ Len(RoundTaken) < 5 => RoundTaken = retrieve_round.queue_before
           /\ Len(retrieve_round.created) = Len(covered)
           /\ \A k \in DOMAIN covered :
                 /\ retrieve_round.created[k].withdrawal_id = covered[k].ledger_burn_index
                 /\ retrieve_round.created[k].nonce = retrieve_round.nonce_before + k - 1
           /\ next_transaction_nonce = retrieve_round.nonce_before + Len(covered)
           /\ retrieve_round.rescheduled = uncovered
           /\ withdrawal_requests =
                 SubSeq(retrieve_round.queue_before, Len(RoundTaken) + 1,
                        Len(retrieve_round.queue_before)) \o uncovered

\* A round over a queue of more than 5 requests created several
\* transactions and rescheduled a request.
C31_Witness ==
    /\ Len(retrieve_round.queue_before) > 5
    /\ Len(retrieve_round.created) >= 2
    /\ Len(retrieve_round.rescheduled) >= 1
    /\ retrieve_round.created[1].withdrawal_id < retrieve_round.rescheduled[1].ledger_burn_index
    /\ retrieve_round.rescheduled[1].ledger_burn_index
          < retrieve_round.created[Len(retrieve_round.created)].withdrawal_id

(***************************************************************************)
(* C32, C33: signing and sending in a round                                *)
(***************************************************************************)
\* The transactions whose signing failed in the last round.
RoundSignFailed == SeqToSet(retrieve_round.sign_batch) \ retrieve_round.sign_ok

\* The transactions handed to eth_sendRawTransaction in the round: the batch
\* in flight or the batch answered.
RoundBroadcast ==
    IF retrieve.pc = "send" THEN SeqToSet(retrieve.batch)
    ELSE SeqToSet(retrieve_round.send_batch)

\* C32: within one round a signing failure is isolated: every created
\* transaction whose signing succeeded has left the created set and is
\* broadcast in the same round, whatever its nonce; a transaction whose
\* signing failed stays in the created set for the next round.
C32_SigningFailureIsolated ==
    /\ \A tx \in retrieve_round.sign_ok : tx \notin created_tx /\ tx \in RoundBroadcast
    /\ \A tx \in RoundSignFailed : tx \in created_tx /\ tx \notin RoundBroadcast

\* A signing failed, and a transaction with a higher nonce was signed and
\* sent in the same round.
C32_Witness ==
    \E failed \in RoundSignFailed, tx \in retrieve_round.sign_ok :
        /\ failed.nonce < tx.nonce
        /\ tx \in SeqToSet(retrieve_round.send_batch)
        /\ tx \in sent_tx

\* The transactions of the batch answered with Ok or NonceTooLow in this step.
SendAccepted == retrieve_round'.send_ok \cup retrieve_round'.send_nonce_too_low

SendStepRecordsAccepted ==
    retrieve.pc = "send" /\ retrieve'.pc # "send" =>
        /\ sent_tx' = sent_tx \cup SendAccepted
        /\ signed_tx' = signed_tx \ SendAccepted
        /\ \A tx \in SeqToSet(retrieve.batch) \ SendAccepted :
              tx \in signed_tx' /\ tx \notin sent_tx'

\* C33: send_transactions_batch records a signed transaction as sent exactly
\* when its eth_sendRawTransaction result is Ok or NonceTooLow; with any
\* other answer it is not recorded as sent and stays in the signed set, and
\* every send of a round takes the whole signed set, so it is sent again.
C33_SentExactlyOnOkOrNonceTooLow ==
    /\ [][SendStepRecordsAccepted]_vars
    /\ [](retrieve.pc = "send" => SeqToSet(retrieve.batch) = signed_tx)

\* A batch got an Ok, a NonceTooLow and another answer.
C33_Witness ==
    /\ retrieve_round.send_ok # {}
    /\ retrieve_round.send_nonce_too_low # {}
    /\ retrieve_round.send_nonce_too_low \subseteq sent_tx
    /\ \E tx \in SeqToSet(retrieve_round.send_batch) :
          /\ tx \notin retrieve_round.send_ok \cup retrieve_round.send_nonce_too_low
          /\ tx \in signed_tx

(***************************************************************************)
(* C34: the mint task scheduled by scrap_eth_logs_between                  *)
(***************************************************************************)
\* scrap_eth_logs_between handles the events of a span in this step.
ScrapSpanStep == scrap.pc = "logs" /\ scrap'.calls = scrap.calls + 1

MintTaskScheduled == mint_timers' = mint_timers + 1

\* The audit events recorded in this step.
NewLogEvents == {event_log'[i] : i \in (Len(event_log) + 1)..Len(event_log')}

SpanAcceptedDeposit == \E e \in NewLogEvents : e.type = "AcceptedDeposit"

SpanBlockedDeposit ==
    \E e \in NewLogEvents :
        e.type = "InvalidDeposit" /\ Head(e.reason) = "blocked address "

\* C34: scrap_eth_logs_between schedules the one-shot mint_cketh task for a
\* span when, and only when, a deposit event of the span was recorded as
\* AcceptedDeposit; a span whose events are all from blocked senders
\* schedules no mint task.
C34_MintScheduledIffAccepted ==
    [][ScrapSpanStep => (MintTaskScheduled <=> SpanAcceptedDeposit)]_vars

\* C34 as the code has it: the mint task is scheduled when, and only when, a
\* deposit event was retrieved for the span, recorded as AcceptedDeposit or,
\* for a blocked sender, as InvalidDeposit.
C34_MintScheduledIffRetrieved ==
    [][ScrapSpanStep =>
          (MintTaskScheduled <=> (SpanAcceptedDeposit \/ SpanBlockedDeposit))]_vars

\* The span from block 1000 to block 1024 held the deposit of the blocked
\* sender alone and left a mint timer, the only one pending.
C34_Witness ==
    /\ scrap.prev = 1000
    /\ last_scraped_block_number = 1024
    /\ minted_events = {1}
    /\ events_to_mint = {}
    /\ invalid_events = {2}
    /\ mint.pc = "idle"
    /\ mint_timers = 1
    /\ minter_budget.mint_fail = MaxMintFailures
    /\ minter_budget.upgrade = MaxUpgrades

(***************************************************************************)
(* C35: register_dapp_canisters has no cross-id atomicity                  *)
(***************************************************************************)
\* The outcomes of a call that aborted in the check of one id: canister_status
\* failed, root is not a controller, update_settings failed, or root is not
\* the only controller afterwards.
CheckFailures ==
    {"panic_status", "panic_not_controlled", "panic_update", "panic_not_exclusive"}

\* The ids of the request of call c that the loop reached before `id`.
ProcessedBefore(c, id) == {x \in SeqToSet(c.request) : x < id}

\* C35: when the check of one id of a register_dapp_canisters request fails,
\* the call has aborted without registering that id, and every id of the
\* request that was processed before it is in dapp_canister_ids: registered
\* by this call unless it was registered when the call started.
C35_NoCrossIdAtomicity ==
    \A r \in RegisterSlots :
        LET c == register_call[r] IN
        c.outcome \in CheckFailures =>
            /\ c.pc = "idle"
            /\ c.culprit \in SeqToSet(c.request)
            /\ c.culprit \notin c.pushed
            /\ c.pushed = ProcessedBefore(c, c.culprit) \ SeqToSet(c.dapps)
            /\ ProcessedBefore(c, c.culprit) \subseteq SeqToSet(dapp_canister_ids)

\* C35 witness: a call has aborted in the check of an id after it had
\* registered another id of the same request, and the failed id is not
\* registered.
C35_Witness ==
    \E r \in RegisterSlots :
        LET c == register_call[r] IN
        /\ c.outcome \in CheckFailures
        /\ c.pushed # {}
        /\ c.culprit \notin SeqToSet(dapp_canister_ids)
        /\ c.pushed \subseteq SeqToSet(dapp_canister_ids)

(***************************************************************************)
(* C36: every request bumps last_request                                   *)
(***************************************************************************)
\* Process p receives a request in this step.
HttpRequestStep(p) ==
    /\ server_budget'.requests = server_budget.requests - 1
    /\ http_exchange'.server = p

\* C36: every inbound HTTP request, whatever its path or outcome (a 4xx
\* answer and a path that matches no route included), sets last_request of
\* the process to the current time.
C36_EveryRequestBumps ==
    [][\A p \in ServerProcs : HttpRequestStep(p) => last_request'[p] = server_now]_vars

\* A request that no route matches was answered with last_request older than
\* the current time.
C36_UnroutedNotBumped ==
    /\ http_exchange.method = "no route"
    /\ last_request[http_exchange.server] < server_now

\* C21, its clause about arriving requests: as long as a request arrives at
\* least every TTL_SEC seconds the process does not shut down.  A process
\* whose last request arrived in the first TTL_SEC seconds has had no longer
\* gap between its start and its requests, so it leaves the loop of
\* shutdown_signal only more than TTL_SEC seconds after that request.
C21_NoShutdownWhileRequestsArrive ==
    [][\A p \in ServerProcs :
          (/\ server[p].pc = "serving"
           /\ server'[p].pc # "serving"
           /\ http_exchange.server = p
           /\ http_exchange.at <= TTL_SEC)
              => server_now - http_exchange.at > TTL_SEC]_vars

(***************************************************************************)
(* C37: accepted deposits are eventually minted                            *)
(***************************************************************************)
\* SpecMintLive: scrap_eth_logs and mint_cketh of a minter with a helper
\* contract that is not upgraded.  Timers that are due fire, the responses of
\* the Ethereum providers and of the ledger arrive, and a transfer that is
\* tried again and again succeeds.
MintLiveInit ==
    /\ DepositInit
    /\ ethereum_contract_address = Some("contract")
    /\ minter_budget.upgrade = MaxUpgrades

MintLiveNext ==
    \/ ScrapStart
    \/ \E result \in {None} \cup {Some(h) : h \in Heights}, cleanup \in BOOLEAN :
          ScrapBlockResponse(result, cleanup)
    \/ ScrapLogsResponse
    \/ MintStart
    \/ \E result \in TransferResults : MintTransferResponse(result)

MintLiveFairness ==
    /\ WF_vars(ScrapStart)
    /\ WF_vars(\E result \in {None} \cup {Some(h) : h \in Heights}, cleanup \in BOOLEAN :
                  ScrapBlockResponse(result, cleanup))
    /\ WF_vars(ScrapLogsResponse)
    /\ WF_vars(MintStart)
    /\ WF_vars(\E result \in TransferResults : MintTransferResponse(result))
    /\ SF_vars(MintTransferResponse("ok"))

SpecMintLive == MintLiveInit /\ [][MintLiveNext]_vars /\ MintLiveFairness

\* C37: every deposit recorded as AcceptedDeposit is eventually minted, also
\* when it is accepted while a mint_cketh run is in progress and no further
\* deposit arrives.
C37_AcceptedEventuallyMinted ==
    \A source \in EventSources :
        (source \in events_to_mint) ~> (source \in minted_events)

\* A deposit is left in events_to_mint with nothing to mint it: no mint_cketh
\* run in progress and no mint timer pending, after a mint timer found the
\* MintCkEth guard taken.
C37_DepositStranded ==
    /\ events_to_mint # {}
    /\ mint.pc = "idle"
    /\ mint_timers = 0
    /\ "MintCkEth" \in guard_refused

\* Unless a mint timer has found the MintCkEth guard taken, every accepted
\* deposit is eventually minted.
C37_MintedUnlessTimerRefused ==
    \A source \in EventSources :
        (source \in events_to_mint)
            ~> (source \in minted_events \/ "MintCkEth" \in guard_refused)

(***************************************************************************)
(* C39: set_dapp_controllers and canisters that are not tracked            *)
(***************************************************************************)
\* C39: set_dapp_controllers changes the controllers only of canisters that
\* are tracked in dapp_canister_ids: every update_settings call of a
\* set_dapp_controllers call is for an id that was in dapp_canister_ids when
\* the call started.
C39_UpdatesOnlyTracked ==
    \A i \in DOMAIN set_call.update_calls :
        Contains(set_call.dapps_at_start, set_call.update_calls[i])

\* Successful set_dapp_controllers calls for explicit ids issue update_settings
\* for exactly the ids of the request, tracked or not.
C39_UpdatesTheRequestedIds ==
    (set_call.outcome = "ok" /\ ~set_call.set_all)
        => set_call.update_calls = set_call.ids

(***************************************************************************)
(* C40: the tracked archive set only grows                                 *)
(***************************************************************************)
\* SpecArchives: archive polls of run_periodic_tasks and of
\* get_sns_canisters_summary in two poll slots, with a ledger that spawns
\* archives between its answers; the answers are handled in any order.
ArchivesInit ==
    /\ RootStateInit
    /\ MinterIdle
    /\ ServerIdle
    /\ ComponentsIdle
    /\ testflight = FALSE
    /\ archive_canister_ids = <<>>
    /\ ledger_archives \in {<<>>, <<ArchiveA>>}
    /\ root_budget = [NoRootBudget EXCEPT !.poll = MaxPolls, !.summary = SummaryCalls,
                                          !.tick = MaxTicks]

ArchivesNext ==
    \/ \E p \in PollSlots, overflow_checks \in BOOLEAN :
          RunPeriodicTasks(p, overflow_checks)
    \/ \E p \in PollSlots, update_canister_list \in BOOLEAN :
          SummaryStart(p, update_canister_list)
    \/ \E p \in PollSlots, ok \in BOOLEAN : LedgerArchivesReply(p, ok)
    \/ \E p \in PollSlots : PollResponse(p)
    \/ \E ok \in BOOLEAN : SummarySystemStatusResponse(ok)
    \/ \E result \in SummaryStatusResults : SummaryCanisterStatusResponse(result)
    \/ \E a \in ArchiveCandidates : LedgerSpawnArchive(a)
    \/ RootTick

SpecArchives == ArchivesInit /\ [][ArchivesNext]_vars

\* C40: an id that is in archive_canister_ids is in archive_canister_ids in
\* every later state, for polls of run_periodic_tasks and of
\* get_sns_canisters_summary whose ledger responses are handled in any order.
C40_ArchiveSetOnlyGrows ==
    [][SeqToSet(archive_canister_ids) \subseteq SeqToSet(archive_canister_ids')]_vars

\* C40 witness: a poll of run_periodic_tasks and a poll of
\* get_sns_canisters_summary overlapped, and the response handled last was
\* the older one: it missed a tracked archive and was dropped.
C40_Witness ==
    /\ periodic_run.polled
    /\ summary_call.update
    /\ summary_call.pc # "polling"
    /\ \E p \in PollSlots : poll_call[p].outcome = "defects"
    /\ \E p \in PollSlots : poll_call[p].outcome = "updated"
    /\ archive_canister_ids # <<>>

(***************************************************************************)
(* C38: no canister id twice in dapp_canister_ids                          *)
(***************************************************************************)
\* C38: dapp_canister_ids never contains the same canister id twice, also
\* when two register_dapp_canisters calls that name the same unregistered id
\* interleave at their management-canister calls.
C38_NoDuplicateDapps == NoDuplicates(dapp_canister_ids)

====
